---- MODULE Spec2Model ----
(***************************************************************************)
(* Verification model of the JSON-to-Terraform multi-cloud deployment      *)
(* tool.  The parts of the program that are modelled:                      *)
(*                                                                         *)
(*   - the parallel deployment orchestrator, run_parallel and              *)
(*     run_command_safe of terraform-generator/run_terraform.py, as a      *)
(*     state machine of one coordinator and one worker per unit folder;    *)
(*   - the topology validator, validate_topology_file of                   *)
(*     terraform-generator/validators/validate_json.py, as a pure          *)
(*     operator applied to bounded topology documents;                     *)
(*   - the cloner, clone/topology_cloner.py, on values and on a heap of    *)
(*     Python objects, with the shared inventory and the VPC supernet;     *)
(*   - the control flow of TerraformGenerator.run and generate_configs     *)
(*     and of the cross-check command line;                                *)
(*   - the runner copied into the generated projects, with its             *)
(*     process-wide working directory.                                     *)
(***************************************************************************)
EXTENDS Integers, Sequences, FiniteSets, TLC

(***************************************************************************)
(* Bounds of the model.                                                    *)
(***************************************************************************)
\* Threads of the ThreadPoolExecutor that run units at the same time.
MaxWorkers == 2
\* Output lines one terraform process prints before it exits.
MaxLines == 1
\* Attachments of all instances of a topology document together.
MaxAttach == 3
\* Interfaces of all routers of a topology document together.
MaxIfaces == 3
\* Static routes of all routers of a topology document together.
MaxRoutes == 2

(***************************************************************************)
(* Part 1: the deployment orchestrator.                                    *)
(***************************************************************************)
VARIABLES
    command,            \* sys.argv[1]: the requested terraform verb
    shared_vpc_exists,  \* shared_vpc.exists()
    folders,            \* the openstack_* / aws_* directories found
    RICH_AVAILABLE,     \* whether the rich display path is taken
    pc,                 \* position of run_parallel (the coordinator)
    shared_steps,       \* terraform verbs started in 00-shared-vpc, in order
    shared_codes,       \* their exit codes, in order
    unit_state,         \* state of run_command_safe for each folder
    unit_steps,         \* terraform verbs started in each folder, in order
    init_code,          \* <<>> or <<exit code of the folder's init step>>
    exit_code,          \* <<>> or <<value run_command_safe returned>>
    lines,              \* output lines read so far from the folder's process
    error_messages,     \* dict folder.name -> text
    success_summaries,  \* dict folder.name -> parsed summary
    live_logs,          \* dict folder.name -> number of lines kept (<= 3)
    futures,            \* rich path: futures not yet collected
    results,            \* exit codes collected by the coordinator
    results_data,       \* rich path: dict folder.name -> status
    completed,          \* rich path: completed[0]
    success,            \* <<>> or <<results.count(0)>>
    data,               \* the parsed topology.json handed to the validator
    outcome             \* what validate_topology_file did with it

\* The generator (terraform_generator.py with topology_cloner.py).
VARIABLES
    suffixes,           \* the suffixes of the copies, in the order of the loop
    clones,             \* what modify_topology returned for each suffix so far
    provider,           \* self.provider
    api,                \* the function of topology_cloner.py the caller uses
    heap,               \* the dicts and lists that exist, by address
    returned,           \* per suffix, the addresses of the objects returned for it
    snapshot,           \* the heap when the last call returned
    touched,            \* <<>> or <<suffix index, address>> the caller assigned to
    vpc_cidr,           \* <<>> or <<what calculate_vpc_cidr returned>>
    shared_vpc,         \* <<>> or <<the CIDRs create_shared_vpc_folder chose>>
    program,            \* the entry point that runs: generator or cross-check CLI
    gpc,                \* its position
    topology_json,      \* the content of the file topology.json
    fixed_topology,     \* <<>> or <<the candidate an AI proposed>>
    checked,            \* <<>> or <<validate_topology_file's verdict on the candidate>>
    writes,             \* the candidates written to topology.json, in order
    last_valid,         \* <<>> or <<verdict of the last validation of topology.json>>
    dirs,               \* the directories under the project folder
    next_copy,          \* position in suffixes of the loop of generate_configs
    ip_arg,             \* the ip handed to check_ip_in_cidr
    cidr_arg,           \* the cidr handed to it
    in_cidr,            \* <<>> or <<what check_ip_in_cidr returned>>
    inventory,          \* <<>> or <<what collect_all_networks_and_routers returned>>
    local_folders,      \* project-local runner: the folders it found
    local_state,        \* its run_command's position for each folder
    cwd,                \* the working directory of its process
    ran_in              \* <<>> or <<directory the folder's terraform was started in>>

clone_vars == <<suffixes, clones>>

alias_vars == <<provider, api, heap, returned, snapshot, touched>>

vpc_vars == <<vpc_cidr, shared_vpc>>

flow_vars == <<program, gpc, topology_json, fixed_topology, checked, writes,
               last_valid, dirs, next_copy>>

local_vars == <<local_folders, local_state, cwd, ran_in>>

call_vars == <<ip_arg, cidr_arg, in_cidr, inventory, local_vars>>

gen_vars == <<clone_vars, alias_vars, vpc_vars, flow_vars, call_vars>>

\* No topology is being cloned.
CloneIdle ==
    /\ suffixes = <<>>
    /\ clones = <<>>

\* No objects are looked at.
AliasIdle ==
    /\ provider = "openstack"
    /\ api = "none"
    /\ heap = <<>>
    /\ returned = <<>>
    /\ snapshot = <<>>
    /\ touched = <<>>

\* No address range has been computed.
VpcIdle ==
    /\ vpc_cidr = <<>>
    /\ shared_vpc = <<>>

\* No entry point runs.
FlowIdle ==
    /\ program = "none"
    /\ gpc = "idle"
    /\ topology_json = <<>>
    /\ fixed_topology = <<>>
    /\ checked = <<>>
    /\ writes = <<>>
    /\ last_valid = <<>>
    /\ dirs = {}
    /\ next_copy = 0

\* No project-local runner is started.
LocalIdle ==
    /\ local_folders = {}
    /\ local_state = <<>>
    /\ cwd = ""
    /\ ran_in = <<>>

\* No function is called on its own.
CallIdle ==
    /\ LocalIdle
    /\ ip_arg = <<>>
    /\ cidr_arg = <<>>
    /\ in_cidr = <<>>
    /\ inventory = <<>>

\* The generator has not been started.
GenIdle ==
    /\ CloneIdle
    /\ AliasIdle
    /\ VpcIdle
    /\ FlowIdle
    /\ CallIdle

run_vars == <<command, shared_vpc_exists, folders, RICH_AVAILABLE, pc,
              shared_steps, shared_codes, unit_state, unit_steps, init_code,
              exit_code, lines, error_messages, success_summaries, live_logs,
              futures, results, results_data, completed, success>>

\* A topology document with nothing in it, and the validator not yet called.
EmptyTopology == [networks |-> <<>>, instances |-> <<>>, routers |-> <<>>]

NotValidated == [status |-> "none", is_valid |-> FALSE, errors |-> <<>>]

\* Directory names run_parallel can find under the working directory.
Units == {"openstack_aa1", "aws_bb2", "openstack_cc3"}

Commands == {"init", "apply", "destroy"}

\* Exit codes of a terraform process: 0 is success, anything else failure.
ExitCodes == {0, 1, 2}

Terminal == {"succeeded", "failed"}

Started == {"initializing", "applying", "destroying", "succeeded", "failed"}

\* The state a unit is in while its requested action runs.
ActionState(cmd) == IF cmd = "destroy" THEN "destroying" ELSE "applying"

\* dict[key] = value
DictSet(d, k, v) == [x \in DOMAIN d \cup {k} |-> IF x = k THEN v ELSE d[x]]

\* dict.pop(key, None)
DictPop(d, k) == [x \in DOMAIN d \ {k} |-> d[x]]

EmptyDict == [x \in {} |-> 0]

\* full_output[-3:] keeps at most three lines
LastThree(n) == IF n > 3 THEN 3 ELSE n

\* Units whose worker thread is inside run_command_safe.
Running == {u \in Units : unit_state[u] \in {"initializing", "applying", "destroying"}}

\* A fixed listing order of the directories (Path.iterdir order).
RECURSIVE FolderList(_)
FolderList(S) ==
    IF S = {} THEN <<>>
    ELSE LET u == CHOOSE x \in S : TRUE IN <<u>> \o FolderList(S \ {u})

\* results.count(0)
RECURSIVE CountZero(_)
CountZero(s) ==
    IF s = <<>> THEN 0
    ELSE (IF Head(s) = 0 THEN 1 ELSE 0) + CountZero(Tail(s))

RunInit ==
    /\ command \in Commands
    /\ shared_vpc_exists \in BOOLEAN
    /\ folders \in SUBSET Units
    /\ RICH_AVAILABLE \in BOOLEAN
    /\ pc = "start"
    /\ shared_steps = <<>>
    /\ shared_codes = <<>>
    /\ unit_state = [u \in Units |-> IF u \in folders THEN "pending" ELSE "absent"]
    /\ unit_steps = [u \in Units |-> <<>>]
    /\ init_code = [u \in Units |-> <<>>]
    /\ exit_code = [u \in Units |-> <<>>]
    /\ lines = [u \in Units |-> 0]
    /\ error_messages = EmptyDict
    /\ success_summaries = EmptyDict
    /\ live_logs = EmptyDict
    /\ futures = {}
    /\ results = <<>>
    /\ results_data = EmptyDict
    /\ completed = 0
    /\ success = <<>>
    /\ data = EmptyTopology
    /\ outcome = NotValidated
    /\ GenIdle

\* What run_parallel only reads, and the validator's state, which no
\* orchestrator step touches.
coord_unchanged == UNCHANGED <<command, shared_vpc_exists, folders, RICH_AVAILABLE,
                               data, outcome, gen_vars>>

worker_unchanged == UNCHANGED <<unit_state, unit_steps, init_code, exit_code, lines,
                                error_messages, success_summaries, live_logs>>

collect_unchanged == UNCHANGED <<futures, results, results_data, completed, success>>

\* run_parallel lines 150-156: nothing to do.
NoFoldersFound ==
    /\ pc = "start"
    /\ folders = {} /\ ~shared_vpc_exists
    /\ pc' = "returned"
    /\ UNCHANGED <<shared_steps, shared_codes>>
    /\ coord_unchanged /\ worker_unchanged /\ collect_unchanged

\* SharedFirst without the shared-unit branch: the folders are processed at once.
SharedFirst_Skip ==
    /\ pc = "start"
    /\ ~(folders = {} /\ ~shared_vpc_exists)
    /\ pc' = "folders"
    /\ UNCHANGED <<shared_steps, shared_codes>>
    /\ coord_unchanged /\ worker_unchanged /\ collect_unchanged

\* SharedFirst that takes the shared unit first for destroy as well.
SharedFirst_DestroyToo ==
    /\ pc = "start"
    /\ ~(folders = {} /\ ~shared_vpc_exists)
    /\ IF shared_vpc_exists
       THEN IF command = "apply"
            THEN pc' = "shared_init" /\ shared_steps' = <<"init">>
            ELSE pc' = "shared_action" /\ shared_steps' = <<command>>
       ELSE pc' = "folders" /\ UNCHANGED shared_steps
    /\ UNCHANGED shared_codes
    /\ coord_unchanged /\ worker_unchanged /\ collect_unchanged

\* run_parallel lines 166-189 and 198-217: the shared unit goes first for
\* init and apply; apply runs terraform init in it before the action.
SharedFirst ==
    /\ pc = "start"
    /\ ~(folders = {} /\ ~shared_vpc_exists)
    /\ IF shared_vpc_exists /\ command \in {"init", "apply"}
       THEN IF command = "apply"
            THEN pc' = "shared_init" /\ shared_steps' = <<"init">>
            ELSE pc' = "shared_action" /\ shared_steps' = <<command>>
       ELSE pc' = "folders" /\ UNCHANGED shared_steps
    /\ UNCHANGED shared_codes
    /\ coord_unchanged /\ worker_unchanged /\ collect_unchanged

\* run_parallel lines 190-217: the shared init exits; nonzero returns.
SharedInitExit ==
    /\ pc = "shared_init"
    /\ \E code \in ExitCodes :
         /\ shared_codes' = Append(shared_codes, code)
         /\ IF code # 0
            THEN pc' = "aborted" /\ UNCHANGED shared_steps
            ELSE pc' = "shared_action" /\ shared_steps' = Append(shared_steps, command)
    /\ coord_unchanged /\ worker_unchanged /\ collect_unchanged

\* SharedActionExit without the return on a nonzero code.
SharedActionExit_NoAbort ==
    /\ pc = "shared_action"
    /\ \E code \in ExitCodes :
         /\ shared_codes' = Append(shared_codes, code)
         /\ pc' = "folders"
    /\ UNCHANGED shared_steps
    /\ coord_unchanged /\ worker_unchanged /\ collect_unchanged

\* run_parallel lines 219-237: the shared action exits; nonzero returns.
SharedActionExit ==
    /\ pc = "shared_action"
    /\ \E code \in ExitCodes :
         /\ shared_codes' = Append(shared_codes, code)
         /\ pc' = IF code # 0 THEN "aborted" ELSE "folders"
    /\ UNCHANGED shared_steps
    /\ coord_unchanged /\ worker_unchanged /\ collect_unchanged

\* subprocess.run in run_parallel is not inside a try: when the terraform
\* binary cannot be started the exception leaves run_parallel.
SharedSpawnError ==
    /\ pc \in {"shared_init", "shared_action", "shared_destroy"}
    /\ pc' = "raised"
    /\ UNCHANGED <<shared_steps, shared_codes>>
    /\ coord_unchanged /\ worker_unchanged /\ collect_unchanged

\* run_parallel lines 239-280 and 355-362: submit every folder to the pool.
SubmitFolders ==
    /\ pc = "folders"
    /\ IF folders = {}
       THEN pc' = "after_pool" /\ UNCHANGED <<futures, results_data>>
       ELSE /\ pc' = "pool"
            /\ futures' = IF RICH_AVAILABLE THEN folders ELSE {}
            /\ results_data' = IF RICH_AVAILABLE
                               THEN [u \in folders |-> "pending"]
                               ELSE results_data
    /\ UNCHANGED <<shared_steps, shared_codes, results, completed, success>>
    /\ coord_unchanged /\ worker_unchanged

\* run_command_safe lines 53-73: a pool thread picks the folder up and starts
\* terraform init in it (for init, apply and destroy alike).
WorkerStart(u) ==
    /\ pc = "pool"
    /\ unit_state[u] = "pending"
    /\ Cardinality(Running) < MaxWorkers
    /\ unit_state' = [unit_state EXCEPT ![u] = "initializing"]
    /\ unit_steps' = [unit_steps EXCEPT ![u] = Append(@, "init")]
    /\ UNCHANGED <<init_code, exit_code, lines, error_messages, success_summaries,
                   live_logs, pc, shared_steps, shared_codes>>
    /\ coord_unchanged /\ collect_unchanged

\* WorkerInitExit that starts the action whatever terraform init returned.
WorkerInitExit_NoCheck(u) ==
    /\ unit_state[u] = "initializing"
    /\ \E code \in ExitCodes :
         /\ init_code' = [init_code EXCEPT ![u] = <<code>>]
         /\ IF command = "init"
            THEN /\ exit_code' = [exit_code EXCEPT ![u] = <<code>>]
                 /\ unit_state' = [unit_state EXCEPT ![u] =
                                      IF code = 0 THEN "succeeded" ELSE "failed"]
                 /\ UNCHANGED <<unit_steps, error_messages>>
            ELSE /\ unit_state' = [unit_state EXCEPT ![u] = ActionState(command)]
                 /\ unit_steps' = [unit_steps EXCEPT ![u] = Append(@, command)]
                 /\ UNCHANGED <<exit_code, error_messages>>
    /\ UNCHANGED <<lines, success_summaries, live_logs, pc, shared_steps, shared_codes>>
    /\ coord_unchanged /\ collect_unchanged

\* run_command_safe lines 59-95: terraform init exits.  For init this is the
\* result; for apply and destroy a nonzero code is returned and the action
\* skipped, and a zero code starts the action.
WorkerInitExit(u) ==
    /\ unit_state[u] = "initializing"
    /\ \E code \in ExitCodes :
         /\ init_code' = [init_code EXCEPT ![u] = <<code>>]
         /\ IF code # 0
            THEN /\ error_messages' = DictSet(error_messages, u, "init")
                 /\ exit_code' = [exit_code EXCEPT ![u] = <<code>>]
                 /\ unit_state' = [unit_state EXCEPT ![u] = "failed"]
                 /\ UNCHANGED unit_steps
            ELSE IF command = "init"
                 THEN /\ exit_code' = [exit_code EXCEPT ![u] = <<code>>]
                      /\ unit_state' = [unit_state EXCEPT ![u] = "succeeded"]
                      /\ UNCHANGED <<unit_steps, error_messages>>
                 ELSE /\ unit_state' = [unit_state EXCEPT ![u] = ActionState(command)]
                      /\ unit_steps' = [unit_steps EXCEPT ![u] = Append(@, command)]
                      /\ UNCHANGED <<exit_code, error_messages>>
    /\ UNCHANGED <<lines, success_summaries, live_logs, pc, shared_steps, shared_codes>>
    /\ coord_unchanged /\ collect_unchanged

\* run_command_safe lines 98-102: one line of output is read.
WorkerReadLine(u) ==
    /\ unit_state[u] \in {"applying", "destroying"}
    /\ lines[u] < MaxLines
    /\ lines' = [lines EXCEPT ![u] = @ + 1]
    /\ live_logs' = DictSet(live_logs, u, LastThree(lines[u] + 1))
    /\ UNCHANGED <<unit_state, unit_steps, init_code, exit_code, error_messages,
                   success_summaries, pc, shared_steps, shared_codes>>
    /\ coord_unchanged /\ collect_unchanged

\* WorkerActionExit that clears the whole live log, not the folder's entry.
WorkerActionExit_ClearLogs(u) ==
    /\ unit_state[u] \in {"applying", "destroying"}
    /\ \E code \in ExitCodes :
         /\ exit_code' = [exit_code EXCEPT ![u] = <<code>>]
         /\ IF code # 0
            THEN /\ error_messages' = DictSet(error_messages, u, "output")
                 /\ unit_state' = [unit_state EXCEPT ![u] = "failed"]
                 /\ UNCHANGED success_summaries
            ELSE /\ success_summaries' = DictSet(success_summaries, u, "summary")
                 /\ unit_state' = [unit_state EXCEPT ![u] = "succeeded"]
                 /\ UNCHANGED error_messages
    /\ live_logs' = EmptyDict
    /\ UNCHANGED <<unit_steps, init_code, lines, pc, shared_steps, shared_codes>>
    /\ coord_unchanged /\ collect_unchanged

\* run_command_safe lines 104-120: the action's process exits.
WorkerActionExit(u) ==
    /\ unit_state[u] \in {"applying", "destroying"}
    /\ \E code \in ExitCodes :
         /\ exit_code' = [exit_code EXCEPT ![u] = <<code>>]
         /\ IF code # 0
            THEN /\ error_messages' = DictSet(error_messages, u, "output")
                 /\ unit_state' = [unit_state EXCEPT ![u] = "failed"]
                 /\ UNCHANGED success_summaries
            ELSE /\ success_summaries' = DictSet(success_summaries, u, "summary")
                 /\ unit_state' = [unit_state EXCEPT ![u] = "succeeded"]
                 /\ UNCHANGED error_messages
    /\ live_logs' = DictPop(live_logs, u)
    /\ UNCHANGED <<unit_steps, init_code, lines, pc, shared_steps, shared_codes>>
    /\ coord_unchanged /\ collect_unchanged

\* WorkerException that lets the failure cancel the folders still queued.
WorkerException_CancelSiblings(u) ==
    /\ unit_state[u] \in {"initializing", "applying", "destroying"}
    /\ error_messages' = DictSet(error_messages, u, "exception")
    /\ exit_code' = [exit_code EXCEPT ![u] = <<1>>]
    /\ unit_state' = [v \in Units |->
                        IF v = u THEN "failed"
                        ELSE IF unit_state[v] = "pending" THEN "cancelled"
                        ELSE unit_state[v]]
    /\ UNCHANGED <<unit_steps, init_code, lines, success_summaries, live_logs,
                   pc, shared_steps, shared_codes>>
    /\ coord_unchanged /\ collect_unchanged

\* run_command_safe lines 122-126: the terraform process could not be
\* started (or reading it failed); the exception is recorded, 1 is returned.
WorkerException(u) ==
    /\ unit_state[u] \in {"initializing", "applying", "destroying"}
    /\ error_messages' = DictSet(error_messages, u, "exception")
    /\ exit_code' = [exit_code EXCEPT ![u] = <<1>>]
    /\ unit_state' = [unit_state EXCEPT ![u] = "failed"]
    /\ UNCHANGED <<unit_steps, init_code, lines, success_summaries, live_logs,
                   pc, shared_steps, shared_codes>>
    /\ coord_unchanged /\ collect_unchanged

\* CollectFuture that pops a failed future without keeping its result.
CollectFuture_DropFailed(u) ==
    /\ pc = "pool" /\ RICH_AVAILABLE
    /\ u \in futures
    /\ unit_state[u] \in Terminal
    /\ futures' = futures \ {u}
    /\ results' = IF exit_code[u][1] = 0 THEN Append(results, 0) ELSE results
    /\ results_data' = DictSet(results_data, u,
                               IF exit_code[u][1] = 0 THEN "success" ELSE "failed")
    /\ completed' = Len(results')
    /\ UNCHANGED <<success, pc, shared_steps, shared_codes>>
    /\ coord_unchanged /\ worker_unchanged

\* run_parallel lines 286-294: the live loop collects one finished future.
CollectFuture(u) ==
    /\ pc = "pool" /\ RICH_AVAILABLE
    /\ u \in futures
    /\ unit_state[u] \in Terminal
    /\ futures' = futures \ {u}
    /\ results' = Append(results, exit_code[u][1])
    /\ results_data' = DictSet(results_data, u,
                               IF exit_code[u][1] = 0 THEN "success" ELSE "failed")
    /\ completed' = completed + 1
    /\ UNCHANGED <<success, pc, shared_steps, shared_codes>>
    /\ coord_unchanged /\ worker_unchanged

\* LiveLoopEnd that counts the results collected, not the zeros among them.
LiveLoopEnd_CountCollected ==
    /\ pc = "pool" /\ RICH_AVAILABLE
    /\ futures = {}
    /\ success' = <<Len(results)>>
    /\ pc' = "after_pool"
    /\ UNCHANGED <<futures, results, results_data, completed, shared_steps, shared_codes>>
    /\ coord_unchanged /\ worker_unchanged

\* run_parallel lines 282, 299-333: the live loop ends when no future is
\* left; the executor is shut down and the summary counted.
LiveLoopEnd ==
    /\ pc = "pool" /\ RICH_AVAILABLE
    /\ futures = {}
    /\ success' = <<CountZero(results)>>
    /\ pc' = "after_pool"
    /\ UNCHANGED <<futures, results, results_data, completed, shared_steps, shared_codes>>
    /\ coord_unchanged /\ worker_unchanged

\* run_parallel lines 361-366: executor.map yields every result, in folder
\* order, once every folder's call has returned.
MapEnd ==
    /\ pc = "pool" /\ ~RICH_AVAILABLE
    /\ \A u \in folders : unit_state[u] \in Terminal
    /\ results' = [i \in 1..Cardinality(folders) |-> exit_code[FolderList(folders)[i]][1]]
    /\ success' = <<CountZero(results')>>
    /\ pc' = "after_pool"
    /\ UNCHANGED <<futures, results_data, completed, shared_steps, shared_codes>>
    /\ coord_unchanged /\ worker_unchanged

\* run_parallel lines 328-331 and 366: the summary line printed once success
\* is counted: "All N folder(s) succeeded" on the rich path when success is
\* len(folders), "k/N ... succeeded" otherwise.
Summary ==
    LET total == Cardinality(folders)
    IN IF RICH_AVAILABLE /\ success[1] = total
       THEN [text |-> "all", succeeded |-> total, total |-> total]
       ELSE [text |-> "count", succeeded |-> success[1], total |-> total]

\* run_parallel lines 368-397: for destroy the shared unit goes last.
SharedLast ==
    /\ pc = "after_pool"
    /\ IF shared_vpc_exists /\ command = "destroy"
       THEN pc' = "shared_destroy" /\ shared_steps' = Append(shared_steps, "destroy")
       ELSE pc' = "returned" /\ UNCHANGED shared_steps
    /\ UNCHANGED shared_codes
    /\ coord_unchanged /\ worker_unchanged /\ collect_unchanged

\* run_parallel lines 379-401: the shared destroy exits; either way the
\* function ends.
SharedDestroyExit ==
    /\ pc = "shared_destroy"
    /\ \E code \in ExitCodes : shared_codes' = Append(shared_codes, code)
    /\ pc' = "returned"
    /\ UNCHANGED shared_steps
    /\ coord_unchanged /\ worker_unchanged /\ collect_unchanged

Worker(u) ==
    \/ WorkerStart(u)
    \/ WorkerInitExit(u)
    \/ WorkerReadLine(u)
    \/ WorkerActionExit(u)
    \/ WorkerException(u)

Coordinator ==
    \/ NoFoldersFound
    \/ SharedFirst
    \/ SharedInitExit
    \/ SharedActionExit
    \/ SharedSpawnError
    \/ SubmitFolders
    \/ (\E u \in Units : CollectFuture(u))
    \/ LiveLoopEnd
    \/ MapEnd
    \/ SharedLast
    \/ SharedDestroyExit

topo_vars == <<data, outcome>>

vars == <<run_vars, topo_vars, gen_vars>>

RunNext == Coordinator \/ (\E u \in Units : Worker(u))

SpecRun == RunInit /\ [][RunNext]_vars

\* The scheduling the orchestrator relies on: every pool thread keeps
\* running, every terraform process it waits for exits, and the coordinator
\* keeps polling.
SpecRunFair ==
    /\ SpecRun
    /\ WF_vars(Coordinator)
    /\ \A u \in Units : WF_vars(Worker(u))

(***************************************************************************)
(* Properties of the orchestrator.                                         *)
(***************************************************************************)
\* The shared unit's requested action was started and has exited.
SharedCompleted ==
    /\ shared_steps # <<>>
    /\ shared_steps[Len(shared_steps)] = command
    /\ Len(shared_codes) = Len(shared_steps)

\* C1: with action init or apply and an existing 00-shared-vpc directory, no
\* dependent folder has started a terraform step unless the shared unit's
\* requested action has already run to completion.
C1_SharedBeforeDependents ==
    (shared_vpc_exists /\ command \in {"init", "apply"})
        => \A u \in Units : unit_state[u] \in Started => SharedCompleted

C1_Witness ==
    /\ shared_vpc_exists /\ command = "apply"
    /\ shared_steps = <<"init", "apply">>
    /\ \E u \in Units : unit_state[u] = "initializing"

\* Some step of the shared unit exited nonzero during init or apply.
SharedFailed ==
    /\ command \in {"init", "apply"}
    /\ \E i \in 1..Len(shared_codes) : shared_codes[i] # 0

\* C2: when the shared unit's init step or requested action exits nonzero
\* during init or apply, run_parallel has returned without starting any
\* dependent folder and without recording any dependent result.
C2_SharedFailureAborts ==
    SharedFailed =>
        /\ pc = "aborted"
        /\ \A u \in Units : /\ unit_state[u] \in {"absent", "pending"}
                            /\ unit_steps[u] = <<>>
                            /\ exit_code[u] = <<>>
        /\ results = <<>> /\ futures = {} /\ completed = 0
        /\ DOMAIN results_data = {} /\ DOMAIN error_messages = {}

C2_Witness ==
    /\ SharedFailed /\ folders # {}
    /\ shared_steps = <<"init", "apply">>

\* C3: for destroy, the shared unit's destroy has started only if every
\* dependent folder is in a terminal state.
C3_SharedDestroyedLast ==
    (command = "destroy" /\ shared_vpc_exists /\ shared_steps # <<>>)
        => \A u \in folders : unit_state[u] \in Terminal

C3_Witness ==
    /\ command = "destroy" /\ pc = "shared_destroy"
    /\ Cardinality(folders) > 1
    /\ \E u \in folders : unit_state[u] = "failed"

\* The steps run_command_safe may take in one folder.
UnitPath(u) ==
    \/ unit_state'[u] = unit_state[u]
    \/ unit_state[u] = "pending" /\ unit_state'[u] = "initializing"
    \/ unit_state[u] = "initializing"
         /\ unit_state'[u] \in {ActionState(command), "failed"}
    \/ unit_state[u] = ActionState(command)
         /\ unit_state'[u] \in {"succeeded", "failed"}

UnitPaths == command \in {"apply", "destroy"} => (\A u \in Units : UnitPath(u))

\* C4: for apply and destroy, a folder's init step runs to completion before
\* its action starts; the action starts only after init exited 0; when init
\* exits nonzero the action is never started and the folder's result is the
\* init exit code; the folder moves Pending -> Initializing -> Applying ->
\* Succeeded|Failed, or to Failed directly from Initializing.
C4_InitBeforeAction ==
    /\ [](command \in {"apply", "destroy"} =>
            \A u \in Units :
                /\ unit_steps[u] \in {<<>>, <<"init">>, <<"init", command>>}
                /\ Len(unit_steps[u]) = 2 => init_code[u] = <<0>>
                /\ (init_code[u] # <<>> /\ init_code[u] # <<0>>) =>
                        /\ unit_steps[u] = <<"init">>
                        /\ unit_state[u] = "failed"
                        /\ exit_code[u] = init_code[u])
    /\ [][UnitPaths]_vars

C4_Witness ==
    /\ command = "apply"
    /\ \E u, v \in Units :
         /\ unit_steps[u] = <<"init", "apply">> /\ unit_state[u] = "succeeded"
         /\ init_code[v] = <<2>> /\ exit_code[v] = <<2>>

\* A step in which folder u fails leaves every other folder as it was.
FailureIsLocal(u) ==
    (unit_state[u] # "failed" /\ unit_state'[u] = "failed") =>
        /\ \A v \in Units \ {u} : /\ unit_state'[v] = unit_state[v]
                                  /\ exit_code'[v] = exit_code[v]
        /\ exit_code'[u] # <<>> /\ exit_code'[u] # <<0>>
        /\ u \in DOMAIN error_messages'
        /\ \A v \in DOMAIN error_messages' \ {u} :
               v \in DOMAIN error_messages /\ error_messages'[v] = error_messages[v]

FailuresAreLocal == \A u \in Units : FailureIsLocal(u)

\* C5: a folder's failure (nonzero init or action exit, or an exception) is
\* recorded for that folder only and changes no sibling; once the folders
\* are submitted, every one of them eventually reaches a terminal state
\* with its own exit code.
C5_SiblingsComplete ==
    /\ [][FailuresAreLocal]_vars
    /\ \A u \in Units :
         (pc = "pool" /\ u \in folders)
             ~> (unit_state[u] \in Terminal /\ exit_code[u] # <<>>)

C5_Witness ==
    /\ folders = Units
    /\ \E u, v, w \in Units :
         /\ unit_state[u] = "failed" /\ error_messages[u] = "exception"
         /\ unit_state[v] = "succeeded"
         /\ unit_state[w] = "failed" /\ init_code[w] = <<1>>

(***************************************************************************)
(* Part 2: the topology validator.                                         *)
(*                                                                         *)
(* An IPv4 literal "a.b.c.d" is the tuple <<a, b, c, d>> of the numbers    *)
(* its four fields spell, a CIDR literal "a.b.c.d/p" the tuple             *)
(* <<a, b, c, d, p>>; the JSON schema's patterns allow up to three digits  *)
(* per field and two for the prefix, so a literal that matches the pattern *)
(* need not be an address.  A JSON object is a record whose DOMAIN holds   *)
(* the keys that are present.                                              *)
(***************************************************************************)
\* The schema's pattern for an IPv4 string: four fields of 1-3 digits.
PatternIP(ip) == Len(ip) = 4 /\ \A k \in 1..4 : ip[k] \in 0..999

\* The schema's pattern for a CIDR string: an IPv4 pattern, "/", 1-2 digits.
PatternCIDR(c) == Len(c) = 5 /\ (\A k \in 1..4 : c[k] \in 0..999) /\ c[5] \in 0..99

\* validate_ip: ipaddress.IPv4Address(ip) does not raise.
validate_ip(ip) == Len(ip) = 4 /\ \A k \in 1..4 : ip[k] \in 0..255

\* validate_cidr: ipaddress.IPv4Network(cidr, strict=False) does not raise.
\* A text without "/" (four numbers) is a network of one address.
validate_cidr(c) ==
    /\ Len(c) \in {4, 5}
    /\ \A k \in 1..4 : c[k] \in 0..255
    /\ Len(c) = 5 => c[5] \in 0..32

\* The prefix length IPv4Network gives a valid cidr.
prefixlen(c) == IF Len(c) = 4 THEN 32 ELSE c[5]

\* The integer an IPv4Address holds.
IPv4Int(ip) == ((ip[1] * 256 + ip[2]) * 256 + ip[3]) * 256 + ip[4]

RECURSIVE Pow2(_)
Pow2(n) == IF n = 0 THEN 1 ELSE 2 * Pow2(n - 1)

\* Number of addresses of a prefix length.
BlockSize(prefix) == Pow2(32 - prefix)

\* address & netmask
MaskTo(addr, prefix) == addr - (addr % BlockSize(prefix))

\* check_ip_in_cidr that does not mask the host bits of the CIDR literal.
check_ip_in_cidr_Strict(ip, cidr) ==
    /\ validate_ip(ip)
    /\ validate_cidr(cidr)
    /\ MaskTo(IPv4Int(ip), prefixlen(cidr)) = IPv4Int(SubSeq(cidr, 1, 4))

\* check_ip_in_cidr that compares nothing when the prefix length is 32.
check_ip_in_cidr_AnyHost(ip, cidr) ==
    /\ validate_ip(ip)
    /\ validate_cidr(cidr)
    /\ prefixlen(cidr) < 32
        => MaskTo(IPv4Int(ip), prefixlen(cidr))
            = MaskTo(IPv4Int(SubSeq(cidr, 1, 4)), prefixlen(cidr))

\* check_ip_in_cidr: IPv4Address(ip) in IPv4Network(cidr, strict=False), and
\* False when either constructor raises ValueError.
check_ip_in_cidr(ip, cidr) ==
    /\ validate_ip(ip)
    /\ validate_cidr(cidr)
    /\ MaskTo(IPv4Int(ip), prefixlen(cidr))
        = MaskTo(IPv4Int(SubSeq(cidr, 1, 4)), prefixlen(cidr))

\* One entry of the errors list.  kind tells which append produced it; name,
\* i and j keep what the message names: a network name, the position of the
\* instance or router, and the position of the attachment or route in it.
Err(kind, name, i, j) == [kind |-> kind, name |-> name, i |-> i, j |-> j]

\* The required keys of an attachment or a route that are missing.
MissingKeys(obj, required) == required \ DOMAIN obj

\* Schema violations of the attachments of a list of instances or routers:
\* a missing required key (reported at the attachment) or an ip that does
\* not match the pattern.
RECURSIVE AttachmentViolations(_, _, _, _)
AttachmentViolations(section, owners, i, j) ==
    IF i > Len(owners) THEN <<>>
    ELSE IF j > Len(owners[i].networks) THEN AttachmentViolations(section, owners, i + 1, 1)
    ELSE LET net == owners[i].networks[j]
             req == IF "name" \notin DOMAIN net
                    THEN <<Err("schema_required_name", section, i, j)>> ELSE <<>>
             reqip == IF "ip" \notin DOMAIN net
                      THEN <<Err("schema_required_ip", section, i, j)>> ELSE <<>>
             pat == IF "ip" \in DOMAIN net /\ ~PatternIP(net.ip)
                    THEN <<Err("schema_pattern_ip", section, i, j)>> ELSE <<>>
         IN req \o reqip \o pat \o AttachmentViolations(section, owners, i, j + 1)

\* Schema violations of the instances themselves: a missing required key.
RECURSIVE InstanceViolations(_, _)
InstanceViolations(instances, i) ==
    IF i > Len(instances) THEN <<>>
    ELSE (IF "image" \notin DOMAIN instances[i]
          THEN <<Err("schema_required_image", "instances", i, 0)>> ELSE <<>>)
         \o InstanceViolations(instances, i + 1)

\* Everything in the document that TOPOLOGY_SCHEMA rejects: the instances,
\* their attachments, then the attachments of the routers.
SchemaViolations(doc) ==
    InstanceViolations(doc.instances, 1)
        \o AttachmentViolations("instances", doc.instances, 1, 1)
        \o AttachmentViolations("routers", doc.routers, 1, 1)

\* Step 2: validate() raises one ValidationError, for one violation; the
\* except clause appends one "Schema error" entry.
SchemaErrors(doc) ==
    LET v == SchemaViolations(doc)
    IN IF v = <<>> THEN <<>> ELSE <<Err("schema", v[1].name, v[1].i, v[1].j)>>

\* Step 3: network_info = {net["name"]: net for net in networks}; a later
\* network of the same name replaces an earlier one.
network_info(doc) ==
    LET names == {doc.networks[k].name : k \in 1..Len(doc.networks)}
        last(n) == CHOOSE k \in 1..Len(doc.networks) :
                     /\ doc.networks[k].name = n
                     /\ \A m \in (k + 1)..Len(doc.networks) : doc.networks[m].name # n
    IN [n \in names |-> doc.networks[last(n)]]

\* network_info.items(): the keys in the order they were first inserted.
RECURSIVE NetworkOrder(_, _)
NetworkOrder(doc, k) ==
    IF k > Len(doc.networks) THEN <<>>
    ELSE IF \E m \in 1..(k - 1) : doc.networks[m].name = doc.networks[k].name
         THEN NetworkOrder(doc, k + 1)
         ELSE <<doc.networks[k].name>> \o NetworkOrder(doc, k + 1)

\* The set a dict of sets holds for a key, empty when the key is new.
SeenIps_AnyNetwork(ips, net_name) == UNION {ips[n] : n \in DOMAIN ips}

\* used_ips[net_name] after "if net_name not in used_ips: ... = set()".
SeenIps(ips, net_name) == IF net_name \in DOMAIN ips THEN ips[net_name] ELSE {}

\* Step 4, lines 232-260: the attachments of instance i from position j on.
\* acc is [errors, used_ips, raised].
RECURSIVE InstanceNetworks(_, _, _, _)
InstanceNetworks(acc, doc, i, j) ==
    IF acc.raised \/ j > Len(doc.instances[i].networks) THEN acc
    ELSE LET net == doc.instances[i].networks[j] IN
         IF MissingKeys(net, {"name", "ip"}) # {}
         THEN [acc EXCEPT !.raised = TRUE]
         ELSE LET net_name == net.name
                  ip == net.ip
                  info == network_info(doc)
              IN IF net_name \notin DOMAIN info
                 THEN InstanceNetworks(
                        [acc EXCEPT !.errors = Append(@, Err("inst_net_missing", net_name, i, j))],
                        doc, i, j + 1)
                 ELSE IF ~validate_ip(ip)
                 THEN InstanceNetworks(
                        [acc EXCEPT !.errors = Append(@, Err("inst_ip_invalid", net_name, i, j))],
                        doc, i, j + 1)
                 ELSE LET outside == IF ~check_ip_in_cidr(ip, info[net_name].cidr)
                                     THEN <<Err("inst_outside_cidr", net_name, i, j)>>
                                     ELSE <<>>
                          seen == SeenIps(acc.used_ips, net_name)
                          dup == IF ip \in seen
                                 THEN <<Err("inst_dup_ip", net_name, i, j)>>
                                 ELSE <<>>
                      IN InstanceNetworks(
                           [errors |-> acc.errors \o outside \o dup,
                            used_ips |-> DictSet(acc.used_ips, net_name, seen \cup {ip}),
                            raised |-> FALSE],
                           doc, i, j + 1)

\* validate_cloud_init_file: the file is looked up under its name and, when
\* the name does not end in .json, under the name with .json appended.
\* f records what the file system answers.
validate_cloud_init_file(f) ==
    f.exact_exists \/ (~f.ends_json /\ f.with_ext_exists)

\* Step 4, lines 262-276: the cloud_init and floating_ip checks of instance i.
InstanceExtras(doc, i) ==
    LET instance == doc.instances[i]
        ci == IF "cloud_init" \in DOMAIN instance
                 /\ ~validate_cloud_init_file(instance.cloud_init)
              THEN <<Err("cloud_init_missing", "", i, 0)>> ELSE <<>>
        fip == IF "floating_ip" \notin DOMAIN instance THEN <<>>
               ELSE IF instance.floating_ip.type = "string"
                    THEN IF ~validate_ip(instance.floating_ip.value)
                         THEN <<Err("floating_ip_invalid", "", i, 0)>> ELSE <<>>
                    ELSE IF instance.floating_ip.type # "boolean"
                         THEN <<Err("floating_ip_type", "", i, 0)>> ELSE <<>>
    IN ci \o fip

\* Step 4: for instance in data.get("instances", []).
RECURSIVE Instances(_, _, _)
Instances(acc, doc, i) ==
    IF acc.raised \/ i > Len(doc.instances) THEN acc
    ELSE LET a == InstanceNetworks(acc, doc, i, 1)
         IN IF a.raised THEN a
            ELSE Instances([a EXCEPT !.errors = @ \o InstanceExtras(doc, i)], doc, i + 1)

\* Step 5, lines 279-284: the gateway of every network of network_info.
RECURSIVE Gateways(_, _, _)
Gateways(doc, order, k) ==
    IF k > Len(order) THEN <<>>
    ELSE LET network == network_info(doc)[order[k]]
             e == IF ~validate_ip(network.gateway_ip)
                  THEN <<Err("gw_invalid", order[k], 0, 0)>>
                  ELSE IF ~check_ip_in_cidr(network.gateway_ip, network.cidr)
                       THEN <<Err("gw_outside_cidr", order[k], 0, 0)>>
                       ELSE <<>>
         IN e \o Gateways(doc, order, k + 1)

\* Step 6, lines 291-327: the interfaces of router r from position j on.
\* acc is [errors, router_ips, router_interface_ips, raised].
RECURSIVE RouterInterfaces(_, _, _, _, _)
RouterInterfaces(acc, doc, used_ips, r, j) ==
    IF acc.raised \/ j > Len(doc.routers[r].networks) THEN acc
    ELSE LET net == doc.routers[r].networks[j] IN
         IF MissingKeys(net, {"name", "ip"}) # {}
         THEN [acc EXCEPT !.raised = TRUE]
         ELSE LET net_name == net.name
                  ip == net.ip
                  info == network_info(doc)
              IN IF net_name \notin DOMAIN info
                 THEN RouterInterfaces(
                        [acc EXCEPT !.errors = Append(@, Err("rtr_net_missing", net_name, r, j))],
                        doc, used_ips, r, j + 1)
                 ELSE IF ~validate_ip(ip)
                 THEN RouterInterfaces(
                        [acc EXCEPT !.errors = Append(@, Err("rtr_ip_invalid", net_name, r, j))],
                        doc, used_ips, r, j + 1)
                 ELSE IF ~check_ip_in_cidr(ip, info[net_name].cidr)
                 THEN RouterInterfaces(
                        [acc EXCEPT !.errors = Append(@, Err("rtr_outside_cidr", net_name, r, j))],
                        doc, used_ips, r, j + 1)
                 ELSE LET seen == SeenIps(acc.router_ips, net_name)
                          dup == IF ip \in seen
                                 THEN <<Err("rtr_dup_ip", net_name, r, j)>> ELSE <<>>
                          conflict == IF net_name \in DOMAIN used_ips /\ ip \in used_ips[net_name]
                                      THEN <<Err("rtr_inst_conflict", net_name, r, j)>>
                                      ELSE <<>>
                      IN RouterInterfaces(
                           [errors |-> acc.errors \o dup \o conflict,
                            router_ips |-> DictSet(acc.router_ips, net_name, seen \cup {ip}),
                            router_interface_ips |->
                                DictSet(acc.router_interface_ips, net_name, ip),
                            raised |-> FALSE],
                           doc, used_ips, r, j + 1)

\* Step 6: for router in data.get("routers", []).
RECURSIVE Routers(_, _, _, _)
Routers(acc, doc, used_ips, r) ==
    IF acc.raised \/ r > Len(doc.routers) THEN acc
    ELSE Routers(RouterInterfaces(acc, doc, used_ips, r, 1), doc, used_ips, r + 1)

\* Step 6.5, lines 331-339: the gateway of every network some router
\* interface was recorded for is compared with the recorded interface IP.
RECURSIVE GatewayMatches(_, _, _, _)
GatewayMatches(doc, order, k, router_interface_ips) ==
    IF k > Len(order) THEN <<>>
    ELSE LET net_name == order[k]
             gw_ip == network_info(doc)[net_name].gateway_ip
             e == IF net_name \in DOMAIN router_interface_ips
                     /\ gw_ip # router_interface_ips[net_name]
                  THEN <<Err("gw_mismatch", net_name, 0, 0)>> ELSE <<>>
         IN e \o GatewayMatches(doc, order, k + 1, router_interface_ips)

\* router_networks that holds every declared network.
router_networks_AllDeclared(doc, r) == DOMAIN network_info(doc)

\* Step 7, line 343: the keys of router_networks, the names of the networks
\* router r has an interface on.
router_networks(doc, r) ==
    {doc.routers[r].networks[j].name : j \in 1..Len(doc.routers[r].networks)}

\* route.get(key, ""): the empty string is the empty tuple.
GetOrEmpty(obj, key) == IF key \in DOMAIN obj THEN obj[key] ELSE <<>>

\* router.get("routes", [])
RoutesOf(router) == IF "routes" \in DOMAIN router THEN router.routes ELSE <<>>

\* Step 7, lines 345-369: the routes of router r from position k on.
RECURSIVE RouterRoutes(_, _, _)
RouterRoutes(doc, r, k) ==
    IF k > Len(RoutesOf(doc.routers[r])) THEN <<>>
    ELSE LET route == RoutesOf(doc.routers[r])[k]
             dest == GetOrEmpty(route, "destination")
             nexthop == GetOrEmpty(route, "nexthop")
             info == network_info(doc)
             nexthop_reachable ==
                 \E net_name \in router_networks(doc, r) :
                     /\ net_name \in DOMAIN info
                     /\ check_ip_in_cidr(nexthop, info[net_name].cidr)
             e == IF ~validate_cidr(dest)
                  THEN <<Err("route_dest_invalid", "", r, k)>>
                  ELSE IF ~validate_ip(nexthop)
                       THEN <<Err("route_nexthop_invalid", "", r, k)>>
                       ELSE IF ~nexthop_reachable
                            THEN <<Err("route_unreachable", "", r, k)>>
                            ELSE <<>>
         IN e \o RouterRoutes(doc, r, k + 1)

\* Step 7: for router in data.get("routers", []).
RECURSIVE StaticRoutes(_, _)
StaticRoutes(doc, r) ==
    IF r > Len(doc.routers) THEN <<>>
    ELSE RouterRoutes(doc, r, 1) \o StaticRoutes(doc, r + 1)

Raised == [status |-> "raised", is_valid |-> FALSE, errors |-> <<>>]

\* validate_topology_file from Step 2 on, for a document json.load returned.
\* A KeyError on a missing "name" or "ip" key leaves the function; nothing
\* in it catches KeyError.
validate_topology_file(doc) ==
    LET schema == SchemaErrors(doc)
        order == NetworkOrder(doc, 1)
        inst == Instances([errors |-> schema, used_ips |-> EmptyDict, raised |-> FALSE],
                          doc, 1)
        gw == Gateways(doc, order, 1)
        rtr == Routers([errors |-> inst.errors \o gw, router_ips |-> EmptyDict,
                        router_interface_ips |-> EmptyDict, raised |-> FALSE],
                       doc, inst.used_ips, 1)
        errors == rtr.errors
                    \o GatewayMatches(doc, order, 1, rtr.router_interface_ips)
                    \o StaticRoutes(doc, 1)
    IN IF inst.raised THEN Raised
       ELSE IF rtr.raised THEN Raised
       ELSE [status |-> "returned", is_valid |-> (errors = <<>>), errors |-> errors]

(***************************************************************************)
(* The documents the validator is applied to.                              *)
(***************************************************************************)
\* Every sequence over S of length at most n.
SeqUpTo(S, n) == UNION {[1..k -> S] : k \in 0..n}

Attachment(name, ip) == [name |-> name, ip |-> ip]

Network(name, cidr, gw) == [name |-> name, cidr |-> cidr, gateway_ip |-> gw]

\* net1 is 10.0.0.0/24, written with or without host bits, or with a prefix
\* length that is no prefix length; net2 is 10.0.1.0/24.
Net1Cidrs == {<<10, 0, 0, 0, 24>>, <<10, 0, 0, 77, 24>>, <<10, 0, 0, 0, 33>>}

Net2 == Network("net2", <<10, 0, 1, 0, 24>>, <<10, 0, 1, 1>>)

\* 10.0.0.1 and 10.0.0.5 differ in one bit.
Net1Gateways == {<<10, 0, 0, 1>>, <<10, 0, 0, 5>>}

\* Attachments of instances: in net1, in net2, on a network that is not
\* declared, and with a literal that matches the pattern but is no address.
InstanceAttachments ==
    {Attachment("net1", <<10, 0, 0, 5>>), Attachment("net1", <<10, 0, 1, 5>>),
     Attachment("net1", <<10, 0, 0, 300>>), Attachment("net2", <<10, 0, 0, 5>>),
     Attachment("net2", <<10, 0, 1, 5>>), Attachment("net9", <<10, 0, 0, 5>>)}

Instance(nets) == [name |-> "vm", image |-> "ubuntu", networks |-> nets]

Router(nets, routes) ==
    [name |-> "r", external |-> FALSE, networks |-> nets, routes |-> routes]

\* Attachments in document order, each marked when it opens a new owner
\* (instance or router); the first one always does.
Listings(S, n) ==
    {f \in SeqUpTo([att : S, fresh : BOOLEAN], n) : f = <<>> \/ f[1].fresh}

\* The instances (or routers, by kind) a listing spells out.
RECURSIVE Grouped(_, _)
Grouped(f, kind) ==
    IF f = <<>> THEN <<>>
    ELSE LET n == Len(f)
             before == Grouped(SubSeq(f, 1, n - 1), kind)
         IN IF f[n].fresh
            THEN Append(before, IF kind = "router" THEN Router(<<f[n].att>>, <<>>)
                                ELSE Instance(<<f[n].att>>))
            ELSE [before EXCEPT ![Len(before)].networks = Append(@, f[n].att)]

\* The document is about instances: no router.
InstanceTopology ==
    \E c \in Net1Cidrs, second \in {<<>>, <<Net2>>},
       f \in Listings(InstanceAttachments, MaxAttach) :
        data = [networks |-> <<Network("net1", c, <<10, 0, 0, 1>>)>> \o second,
                instances |-> Grouped(f, "instance"),
                routers |-> <<>>]

\* Interfaces of routers.
RouterAttachments ==
    {Attachment("net1", <<10, 0, 0, 1>>), Attachment("net1", <<10, 0, 0, 5>>),
     Attachment("net1", <<10, 0, 1, 1>>), Attachment("net2", <<10, 0, 1, 1>>)}

\* The document is about router interfaces: the gateway of net1 varies,
\* net2 is declared or not, and an instance holds 10.0.0.5 on net1 or there
\* is none.
InterfaceTopology ==
    \E gw \in Net1Gateways, second \in {<<>>, <<Net2>>},
       insts \in {<<>>, <<Instance(<<Attachment("net1", <<10, 0, 0, 5>>)>>)>>},
       f \in Listings(RouterAttachments, MaxIfaces) :
        data = [networks |-> <<Network("net1", <<10, 0, 0, 0, 24>>, gw)>> \o second,
                instances |-> insts,
                routers |-> Grouped(f, "router")]

Route(dest, nexthop) == [destination |-> dest, nexthop |-> nexthop]

\* Routes: next hop in net1, in net2, in neither, no address; and a
\* destination that is no CIDR.
Routes ==
    {Route(<<10, 9, 0, 0, 16>>, <<10, 0, 0, 1>>), Route(<<10, 9, 0, 0, 16>>, <<10, 0, 1, 9>>),
     Route(<<10, 9, 0, 0, 16>>, <<10, 7, 7, 7>>), Route(<<10, 9, 0, 0, 16>>, <<10, 0, 0, 300>>),
     Route(<<10, 9, 0, 0, 33>>, <<10, 0, 0, 1>>)}

\* The routers with the routes of a listing added, each to the router the
\* listing names.
RECURSIVE WithRoutes(_, _)
WithRoutes(rtrs, rl) ==
    IF rl = <<>> THEN rtrs
    ELSE LET n == Len(rl)
             before == WithRoutes(rtrs, SubSeq(rl, 1, n - 1))
         IN [before EXCEPT ![rl[n].router].routes = Append(@, rl[n].route)]

\* The document is about static routes: routers on net1, net2 or both, net2
\* declared or not.
RouteTopology ==
    \E second \in {<<>>, <<Net2>>},
       f \in Listings({Attachment("net1", <<10, 0, 0, 1>>),
                       Attachment("net2", <<10, 0, 1, 1>>)}, MaxIfaces) :
        \E rl \in SeqUpTo([route : Routes, router : 1..Len(Grouped(f, "router"))],
                          MaxRoutes) :
            data = [networks |-> <<Network("net1", <<10, 0, 0, 0, 24>>, <<10, 0, 0, 1>>)>>
                                    \o second,
                    instances |-> <<>>,
                    routers |-> WithRoutes(Grouped(f, "router"), rl)]

\* What the file system answers for a cloud_init name.
CloudInitFiles == [exact_exists : BOOLEAN, ends_json : BOOLEAN, with_ext_exists : BOOLEAN]

\* floating_ip values: true, an address, a string that is none, a number.
FloatingIps ==
    {[type |-> "boolean", value |-> <<>>], [type |-> "string", value |-> <<10, 0, 0, 9>>],
     [type |-> "string", value |-> <<10, 0, 0, 300>>], [type |-> "number", value |-> <<>>]}

\* The document is about the optional fields of an instance.
ExtrasTopology ==
    \E inst \in {[name |-> "vm", image |-> "ubuntu",
                   networks |-> <<Attachment("net1", <<10, 0, 0, 5>>)>>,
                   cloud_init |-> f] : f \in CloudInitFiles}
             \cup {[name |-> "vm", image |-> "ubuntu",
                    networks |-> <<Attachment("net1", <<10, 0, 0, 5>>)>>,
                    floating_ip |-> f] : f \in FloatingIps} :
        data = [networks |-> <<Network("net1", <<10, 0, 0, 0, 24>>, <<10, 0, 0, 1>>)>>,
                instances |-> <<inst>>,
                routers |-> <<>>]

\* The document is a topology in the sense of the data model: every
\* attachment carries its network name and its IP.
Topology ==
    \/ InstanceTopology
    \/ InterfaceTopology
    \/ RouteTopology
    \/ ExtrasTopology

\* The orchestrator while no run is in progress.
RunIdle ==
    /\ command = "init"
    /\ shared_vpc_exists = FALSE
    /\ folders = {}
    /\ RICH_AVAILABLE = FALSE
    /\ pc = "idle"
    /\ shared_steps = <<>>
    /\ shared_codes = <<>>
    /\ unit_state = [u \in Units |-> "absent"]
    /\ unit_steps = [u \in Units |-> <<>>]
    /\ init_code = [u \in Units |-> <<>>]
    /\ exit_code = [u \in Units |-> <<>>]
    /\ lines = [u \in Units |-> 0]
    /\ error_messages = EmptyDict
    /\ success_summaries = EmptyDict
    /\ live_logs = EmptyDict
    /\ futures = {}
    /\ results = <<>>
    /\ results_data = EmptyDict
    /\ completed = 0
    /\ success = <<>>

TopoInit ==
    /\ Topology
    /\ outcome = NotValidated
    /\ RunIdle
    /\ GenIdle

\* The caller runs validate_topology_file on the document.
Validate ==
    /\ outcome.status = "none"
    /\ outcome' = validate_topology_file(data)
    /\ UNCHANGED <<data, run_vars, gen_vars>>

TopoNext == Validate

SpecTopo == TopoInit /\ [][TopoNext]_vars

\* Attachments that may lack a key, as a parsed JSON document can.
RawAttachments ==
    {[name |-> "net1"], [ip |-> <<10, 0, 0, 5>>],
     Attachment("net1", <<10, 0, 0, 5>>), Attachment("net1", <<10, 0, 1, 5>>),
     Attachment("net9", <<10, 0, 0, 5>>), Attachment("net1", <<10, 0, 0, 1000>>)}

RawInterfaces ==
    {[name |-> "net1"], Attachment("net1", <<10, 0, 0, 1>>), Attachment("net1", <<10, 0, 0, 5>>)}

\* The instances, those at the positions in bare without their image key.
WithoutImage(instances, bare) ==
    [i \in 1..Len(instances) |->
        IF i \in bare
        THEN [key \in DOMAIN instances[i] \ {"image"} |-> instances[i][key]]
        ELSE instances[i]]

\* The document is a parsed JSON document: one network, instances and at
\* most one router; the instances and the attachments need not satisfy the
\* schema.
Document ==
    \E f \in Listings(RawAttachments, MaxAttach),
       rtrs \in {<<>>} \cup {<<Router(<<a>>, <<>>)>> : a \in RawInterfaces} :
        \E bare \in SUBSET (1..Len(Grouped(f, "instance"))) :
            data = [networks |-> <<Network("net1", <<10, 0, 0, 0, 24>>, <<10, 0, 0, 1>>)>>,
                    instances |-> WithoutImage(Grouped(f, "instance"), bare),
                    routers |-> rtrs]

DocInit ==
    /\ Document
    /\ outcome = NotValidated
    /\ RunIdle
    /\ GenIdle

\* validate_topology_file applied to any parsed JSON document.
SpecDoc == DocInit /\ [][TopoNext]_vars

(***************************************************************************)
(* Properties of the validator.                                            *)
(***************************************************************************)
Validated == outcome.status # "none"

\* The errors list names a violation of this kind at instance or router i,
\* attachment or route j.
HasError(kind, i, j) ==
    \E k \in 1..Len(outcome.errors) :
        /\ outcome.errors[k].kind = kind
        /\ outcome.errors[k].i = i
        /\ outcome.errors[k].j = j

\* The errors list names a violation of this kind for the network.
HasNetworkError(kind, name) ==
    \E k \in 1..Len(outcome.errors) :
        outcome.errors[k].kind = kind /\ outcome.errors[k].name = name

Declared(name) == \E k \in 1..Len(data.networks) : data.networks[k].name = name

\* The declared network of a name (names are unique in a topology).
NetworkNamed(name) ==
    data.networks[CHOOSE k \in 1..Len(data.networks) : data.networks[k].name = name]

\* The address range of a CIDR: the addresses that share its prefix bits.
Contained(ip, cidr) ==
    /\ validate_cidr(cidr)
    /\ LET size == BlockSize(cidr[5])
           first == (IPv4Int(SubSeq(cidr, 1, 4)) \div size) * size
       IN IPv4Int(ip) \in first..(first + size - 1)

\* Positions <<i, j>> of the attachments of the instances.
InstancePositions ==
    UNION {{<<i, j>> : j \in 1..Len(data.instances[i].networks)} :
           i \in 1..Len(data.instances)}

InstanceAttachment(p) == data.instances[p[1]].networks[p[2]]

\* Positions <<r, j>> of the interfaces of the routers.
InterfacePositions ==
    UNION {{<<r, j>> : j \in 1..Len(data.routers[r].networks)} :
           r \in 1..Len(data.routers)}

RouterInterface(p) == data.routers[p[1]].networks[p[2]]

\* Positions <<r, k>> of the routes of the routers.
RoutePositions ==
    UNION {{<<r, k>> : k \in 1..Len(data.routers[r].routes)} :
           r \in 1..Len(data.routers)}

\* Position p comes before position q in document order.
Before(p, q) == p[1] < q[1] \/ (p[1] = q[1] /\ p[2] < q[2])

\* C6: the validator reports a gateway/router mismatch for a declared
\* network N if and only if some router interface attached to N with a
\* valid in-CIDR IP has an IP different from N's gateway_ip; so in every
\* accepted topology every router interface IP on a network equals that
\* network's gateway IP, also when several interfaces attach to the network.
C6_GatewayMatchesRouter ==
    Validated =>
        /\ outcome.status = "returned"
        /\ \A k \in 1..Len(data.networks) :
             LET n == data.networks[k] IN
             HasNetworkError("gw_mismatch", n.name)
                 <=> \E p \in InterfacePositions :
                        /\ RouterInterface(p).name = n.name
                        /\ validate_ip(RouterInterface(p).ip)
                        /\ Contained(RouterInterface(p).ip, n.cidr)
                        /\ RouterInterface(p).ip # n.gateway_ip
        /\ outcome.is_valid =>
             \A p \in InterfacePositions :
                 Declared(RouterInterface(p).name) =>
                     RouterInterface(p).ip = NetworkNamed(RouterInterface(p).name).gateway_ip

\* C7: for every instance attachment whose network is declared and whose IP
\* is a valid IPv4 address, the validator reports an outside-CIDR violation
\* exactly when the IP is not in the address range of that network's CIDR,
\* and a topology with such an attachment outside its CIDR is not accepted.
C7_OutsideCidrReported ==
    Validated =>
        /\ outcome.status = "returned"
        /\ \A p \in InstancePositions :
             LET net == InstanceAttachment(p) IN
             (Declared(net.name) /\ validate_ip(net.ip)) =>
                 /\ HasError("inst_outside_cidr", p[1], p[2])
                        <=> ~Contained(net.ip, NetworkNamed(net.name).cidr)
                 /\ ~Contained(net.ip, NetworkNamed(net.name).cidr) => ~outcome.is_valid

C7_Witness ==
    /\ Validated
    /\ data.networks[1].cidr = <<10, 0, 0, 77, 24>>
    /\ \E p, q \in InstancePositions :
         /\ InstanceAttachment(p) = Attachment("net1", <<10, 0, 0, 5>>)
         /\ ~HasError("inst_outside_cidr", p[1], p[2])
         /\ InstanceAttachment(q) = Attachment("net1", <<10, 0, 1, 5>>)
         /\ HasError("inst_outside_cidr", q[1], q[2])

\* Some earlier attachment declares the same IP on the same network.
DeclaredEarlier(q) ==
    \E p \in InstancePositions :
        /\ Before(p, q)
        /\ InstanceAttachment(p).name = InstanceAttachment(q).name
        /\ InstanceAttachment(p).ip = InstanceAttachment(q).ip

\* C8 as stated: whenever two instance attachments declare the same IP on
\* the same declared network, the later one gets a duplicate-IP violation,
\* and the same IP on two different networks gets none.
C8_DuplicateReported ==
    Validated =>
        /\ outcome.status = "returned"
        /\ \A q \in InstancePositions :
             /\ (Declared(InstanceAttachment(q).name) /\ DeclaredEarlier(q))
                    => HasError("inst_dup_ip", q[1], q[2])
             /\ HasError("inst_dup_ip", q[1], q[2]) => DeclaredEarlier(q)

\* C8 as amended: whenever two instance attachments declare the same valid
\* IPv4 address on the same declared network, the later one gets a
\* duplicate-IP violation, and the same IP on two different networks gets
\* none.
C8_ValidDuplicateReported ==
    Validated =>
        /\ outcome.status = "returned"
        /\ \A q \in InstancePositions :
             /\ (/\ Declared(InstanceAttachment(q).name)
                 /\ validate_ip(InstanceAttachment(q).ip)
                 /\ DeclaredEarlier(q))
                    => HasError("inst_dup_ip", q[1], q[2])
             /\ HasError("inst_dup_ip", q[1], q[2]) => DeclaredEarlier(q)

C8_Witness ==
    /\ Validated
    /\ Len(data.networks) = 2
    /\ Len(data.instances) = 2
    /\ data.instances[1].networks =
           <<Attachment("net1", <<10, 0, 0, 5>>), Attachment("net2", <<10, 0, 0, 5>>)>>
    /\ data.instances[2].networks = <<Attachment("net1", <<10, 0, 0, 5>>)>>
    /\ HasError("inst_dup_ip", 2, 1)
    /\ ~HasError("inst_dup_ip", 1, 2)

\* C9: for every route with a valid destination CIDR and a valid nexthop IP,
\* the validator reports an unreachable nexthop if and only if the nexthop
\* is in the CIDR of none of the declared networks this router has an
\* interface on; networks of other routers do not count.
C9_NexthopReachability ==
    Validated =>
        /\ outcome.status = "returned"
        /\ \A p \in RoutePositions :
             LET route == data.routers[p[1]].routes[p[2]] IN
             (validate_cidr(route.destination) /\ validate_ip(route.nexthop)) =>
                 (HasError("route_unreachable", p[1], p[2])
                    <=> ~\E q \in InterfacePositions :
                           /\ q[1] = p[1]
                           /\ Declared(RouterInterface(q).name)
                           /\ Contained(route.nexthop,
                                        NetworkNamed(RouterInterface(q).name).cidr))

C9_Witness ==
    /\ Validated
    /\ Len(data.networks) = 2
    /\ Len(data.routers) = 2
    /\ data.routers[1].networks = <<Attachment("net1", <<10, 0, 0, 1>>)>>
    /\ data.routers[1].routes = <<Route(<<10, 9, 0, 0, 16>>, <<10, 0, 1, 9>>)>>
    /\ data.routers[2].networks = <<Attachment("net2", <<10, 0, 1, 1>>)>>
    /\ data.routers[2].routes = <<Route(<<10, 9, 0, 0, 16>>, <<10, 0, 1, 9>>)>>
    /\ HasError("route_unreachable", 1, 1)
    /\ ~HasError("route_unreachable", 2, 1)

\* An attachment that carries both of its keys.
WellFormed(net) == {"name", "ip"} \subseteq DOMAIN net

\* C10: for every parsed JSON document, also one that violates the schema
\* (an attachment without its name or ip), the validator does not raise: it
\* returns its pair, the schema violation is in the list, and so are the
\* network-logic violations of the attachments (undeclared network, IP
\* outside the CIDR).
C10_BothStagesReturn ==
    Validated =>
        /\ outcome.status = "returned"
        /\ SchemaViolations(data) # <<>> =>
               \E k \in 1..Len(outcome.errors) : outcome.errors[k].kind = "schema"
        /\ \A p \in InstancePositions :
             LET net == InstanceAttachment(p) IN
             WellFormed(net) =>
                 /\ ~Declared(net.name) => HasError("inst_net_missing", p[1], p[2])
                 /\ (/\ Declared(net.name)
                     /\ validate_ip(net.ip)
                     /\ ~Contained(net.ip, NetworkNamed(net.name).cidr))
                        => HasError("inst_outside_cidr", p[1], p[2])

\* The "Schema error" entries of the returned list.
SchemaRecords == {k \in 1..Len(outcome.errors) : outcome.errors[k].kind = "schema"}

\* C11: when the document has k > 1 schema violations and the validator
\* returns its list, the list holds a schema record for each of the k
\* violations, not only for one of them.
C11_EverySchemaViolationListed ==
    (/\ Validated
     /\ outcome.status = "returned"
     /\ Len(SchemaViolations(data)) > 1)
        => Cardinality(SchemaRecords) >= Len(SchemaViolations(data))

(***************************************************************************)
(* Part 3: the topology cloner (clone/topology_cloner.py).                 *)
(***************************************************************************)
\* Copies one generate_configs run makes.
MaxCopies == 2
\* Instances of a topology that is cloned.
MaxCloned == 2

\* f"{name}_{suffix}"
Suffixed(name, suffix) == name \o "_" \o suffix

\* The inner loops of lines 100-101 and 110-111: every attachment of the
\* list gets its network name suffixed.
RenamedRefs(nets, suffix) ==
    [j \in 1..Len(nets) |-> [nets[j] EXCEPT !.name = Suffixed(@, suffix)]]

modify_topology_KeepInstanceRefs(topology, suffix) ==
    [topology EXCEPT
        !.instances = [i \in 1..Len(@) |-> [@[i] EXCEPT !.name = Suffixed(@, suffix)]],
        !.networks = [k \in 1..Len(@) |-> [@[k] EXCEPT !.name = Suffixed(@, suffix)]],
        !.routers = [r \in 1..Len(@) |->
                        [@[r] EXCEPT !.name = Suffixed(@, suffix),
                                     !.networks = RenamedRefs(@, suffix)]]]

modify_topology_KeepRouterRefs(topology, suffix) ==
    [topology EXCEPT
        !.instances = [i \in 1..Len(@) |->
                          [@[i] EXCEPT !.name = Suffixed(@, suffix),
                                       !.networks = RenamedRefs(@, suffix)]],
        !.networks = [k \in 1..Len(@) |-> [@[k] EXCEPT !.name = Suffixed(@, suffix)]],
        !.routers = [r \in 1..Len(@) |-> [@[r] EXCEPT !.name = Suffixed(@, suffix)]]]

\* modify_topology: the copy json.loads(json.dumps(topology)) is a new value
\* equal to the topology; the three loops rewrite the names in it.
modify_topology(topology, suffix) ==
    [topology EXCEPT
        !.instances = [i \in 1..Len(@) |->
                          [@[i] EXCEPT !.name = Suffixed(@, suffix),
                                       !.networks = RenamedRefs(@, suffix)]],
        !.networks = [k \in 1..Len(@) |-> [@[k] EXCEPT !.name = Suffixed(@, suffix)]],
        !.routers = [r \in 1..Len(@) |->
                        [@[r] EXCEPT !.name = Suffixed(@, suffix),
                                     !.networks = RenamedRefs(@, suffix)]]]

\* Suffixes handed to modify_topology; one of them holds the separator.
Suffixes == {"b", "c", "a_b"}

\* Two networks whose names differ by "_a".
CloneNetworks ==
    <<Network("n", <<10, 0, 0, 0, 24>>, <<10, 0, 0, 1>>),
      Network("n_a", <<10, 0, 1, 0, 24>>, <<10, 0, 1, 1>>)>>

\* Instances of a topology that is cloned: on n or on n_a, with an address
\* inside its network, and on n with an address outside it.
CloneInstances ==
    {[Instance(<<att>>) EXCEPT !.name = name] :
        name \in {"vm", "vm_a"},
        att \in {Attachment("n", <<10, 0, 0, 5>>), Attachment("n_a", <<10, 0, 1, 5>>),
                 Attachment("n", <<10, 0, 1, 5>>)}}

\* Its routers: none, or one on n, on n_a or on both networks, with or
\* without a static route whose next hop is on n.
CloneRouters ==
    {<<>>} \cup
    {<<Router(nets, routes)>> :
        nets \in {<<Attachment("n", <<10, 0, 0, 1>>)>>,
                  <<Attachment("n", <<10, 0, 0, 1>>), Attachment("n_a", <<10, 0, 1, 1>>)>>,
                  <<Attachment("n_a", <<10, 0, 1, 1>>)>>},
        routes \in {<<>>, <<Route(<<10, 9, 0, 0, 16>>, <<10, 0, 0, 9>>)>>}}

\* The topology handed to the cloner.
CloneBase ==
    \E insts \in SeqUpTo(CloneInstances, MaxCloned), rtrs \in CloneRouters :
        data = [networks |-> CloneNetworks, instances |-> insts, routers |-> rtrs]

CloneInit ==
    /\ CloneBase
    /\ outcome = NotValidated
    /\ RunIdle
    /\ suffixes \in SeqUpTo(Suffixes, MaxCopies) \ {<<>>}
    /\ clones = <<>>
    /\ AliasIdle
    /\ VpcIdle
    /\ FlowIdle
    /\ CallIdle

\* One round of the loop over the suffixes (generate_configs, lines 756-759;
\* create_provider_directory, line 782).
CloneCopy ==
    /\ Len(clones) < Len(suffixes)
    /\ clones' = Append(clones, modify_topology(data, suffixes[Len(clones) + 1]))
    /\ UNCHANGED <<suffixes, data, outcome, run_vars, alias_vars, vpc_vars, flow_vars,
                   call_vars>>

CloneNext == CloneCopy

SpecClone == CloneInit /\ [][CloneNext]_vars

(***************************************************************************)
(* Properties of the cloner.                                               *)
(***************************************************************************)
\* The attachment lists agree but for the network names, which in the clone
\* are the base names followed by "_" and the suffix.
RefsRenamed(cloned, base, s) ==
    /\ Len(cloned) = Len(base)
    /\ \A j \in 1..Len(base) :
        /\ DOMAIN cloned[j] = DOMAIN base[j]
        /\ cloned[j].name = base[j].name \o "_" \o s
        /\ cloned[j].ip = base[j].ip

\* The objects agree in every key other than name and networks.
RestKept(cloned, base) ==
    /\ DOMAIN cloned = DOMAIN base
    /\ \A key \in DOMAIN base \ {"name", "networks"} : cloned[key] = base[key]

\* C12: every clone has the structure and order of the base topology; the
\* names of its instances, networks and routers and the network names in
\* the attachments of instances and in the interfaces of routers are the
\* base names followed by "_" and the suffix; IPs, CIDRs, gateways, routes
\* and every other field are those of the base.
C12_CloneRenamesEverything ==
    \A k \in 1..Len(clones) :
        LET clone == clones[k]
            s == suffixes[k]
        IN /\ DOMAIN clone = DOMAIN data
           /\ Len(clone.instances) = Len(data.instances)
           /\ Len(clone.networks) = Len(data.networks)
           /\ Len(clone.routers) = Len(data.routers)
           /\ \A i \in 1..Len(data.instances) :
                /\ clone.instances[i].name = data.instances[i].name \o "_" \o s
                /\ RefsRenamed(clone.instances[i].networks, data.instances[i].networks, s)
                /\ RestKept(clone.instances[i], data.instances[i])
           /\ \A n \in 1..Len(data.networks) :
                /\ clone.networks[n].name = data.networks[n].name \o "_" \o s
                /\ RestKept(clone.networks[n], data.networks[n])
           /\ \A r \in 1..Len(data.routers) :
                /\ clone.routers[r].name = data.routers[r].name \o "_" \o s
                /\ RefsRenamed(clone.routers[r].networks, data.routers[r].networks, s)
                /\ RestKept(clone.routers[r], data.routers[r])

C12_Witness ==
    /\ Len(clones) = 2
    /\ suffixes = <<"a_b", "c">>
    /\ Len(data.instances) = 2
    /\ Len(data.routers) = 1
    /\ Len(data.routers[1].networks) = 2
    /\ data.routers[1].routes # <<>>
    /\ clones[2].instances[2].networks[1].name \in {"n_c", "n_a_c"}
    /\ clones[1].routers[1].networks[2].name = "n_a_a_b"

\* The names of the objects of a list.
NamesOf(objects) == {objects[i].name : i \in 1..Len(objects)}

\* C13: when the suffixes are pairwise distinct, the clones made for two of
\* them share no instance name, no network name and no router name.
C13_ClonesDisjoint ==
    (\A k, m \in 1..Len(suffixes) : k # m => suffixes[k] # suffixes[m])
        => \A k, m \in 1..Len(clones) :
             k # m =>
                /\ NamesOf(clones[k].instances) \cap NamesOf(clones[m].instances) = {}
                /\ NamesOf(clones[k].networks) \cap NamesOf(clones[m].networks) = {}
                /\ NamesOf(clones[k].routers) \cap NamesOf(clones[m].routers) = {}

(***************************************************************************)
(* The cloner on Python objects.  A dict or a list is an object at an      *)
(* address of the heap; an entry of it holds an immutable value or the     *)
(* address of another object.  The heap is the sequence of the objects,    *)
(* an address is an index into it.                                         *)
(***************************************************************************)
V(x) == [t |-> "val", v |-> x]

R(a) == [t |-> "ref", v |-> a]

\* An entry of a dict (key k) or of a list (k is not used).
E(k, v) == [k |-> k, v |-> v]

Dict(items) == [kind |-> "dict", items |-> items]

List(items) == [kind |-> "list", items |-> items]

\* A new object: its address is the next free one.
Alloc(h, obj) == [heap |-> Append(h, obj), root |-> Len(h) + 1]

Has(obj, key) == \E i \in 1..Len(obj.items) : obj.items[i].k = key

\* obj[key]
Get(obj, key) ==
    obj.items[CHOOSE i \in 1..Len(obj.items) : obj.items[i].k = key].v

\* obj[key] = v
Assign(obj, key, v) ==
    IF Has(obj, key)
    THEN [obj EXCEPT !.items =
            [i \in 1..Len(@) |-> IF @[i].k = key THEN E(key, v) ELSE @[i]]]
    ELSE [obj EXCEPT !.items = Append(@, E(key, v))]

\* The addresses a list holds, in order.
ListRefs(h, a) == [i \in 1..Len(h[a].items) |-> h[a].items[i].v.v]

\* json.loads(json.dumps(x)): a new object for every dict and list reachable
\* from address a, with the same immutable values.
RECURSIVE DeepCopy(_, _)
RECURSIVE CopyItems(_, _, _)
CopyItems(h, items, i) ==
    IF i > Len(items) THEN [heap |-> h, items |-> items]
    ELSE IF items[i].v.t = "ref"
         THEN LET sub == DeepCopy(h, items[i].v.v)
              IN CopyItems(sub.heap, [items EXCEPT ![i] = E(@.k, R(sub.root))], i + 1)
         ELSE CopyItems(h, items, i + 1)

DeepCopy(h, a) ==
    LET done == CopyItems(h, h[a].items, 1)
    IN Alloc(done.heap, [kind |-> h[a].kind, items |-> done.items])

\* The addresses reachable from the addresses in frontier.
RECURSIVE ReachFrom(_, _, _)
ReachFrom(h, frontier, seen) ==
    IF frontier \subseteq seen THEN seen
    ELSE LET now == seen \cup frontier
         IN ReachFrom(h, UNION {{h[a].items[i].v.v : i \in {j \in 1..Len(h[a].items) :
                                                              h[a].items[j].v.t = "ref"}} :
                                a \in frontier}, now)

Reach(h, roots) == ReachFrom(h, roots, {})

\* The topology document as json.load built it: one instance, one network
\* with an allocation pool, one router with an interface and a route.
TopologyAddress == 1

BaseHeap ==
    <<Dict(<<E("instances", R(2)), E("networks", R(6)), E("routers", R(9))>>),
      List(<<E("", R(3))>>),
      Dict(<<E("name", V("vm")), E("image", V("ubuntu")), E("networks", R(4))>>),
      List(<<E("", R(5))>>),
      Dict(<<E("name", V("n")), E("ip", V(<<10, 0, 0, 5>>))>>),
      List(<<E("", R(7))>>),
      Dict(<<E("name", V("n")), E("cidr", V(<<10, 0, 0, 0, 24>>)),
             E("gateway_ip", V(<<10, 0, 0, 1>>)), E("pool", R(8))>>),
      List(<<E("", V("10.0.0.10-10.0.0.99"))>>),
      List(<<E("", R(10))>>),
      Dict(<<E("name", V("r")), E("external", V(FALSE)), E("networks", R(11)),
             E("routes", R(13))>>),
      List(<<E("", R(12))>>),
      Dict(<<E("name", V("n")), E("ip", V(<<10, 0, 0, 1>>))>>),
      List(<<E("", R(14))>>),
      Dict(<<E("destination", V(<<10, 9, 0, 0, 16>>)), E("nexthop", V(<<10, 0, 0, 9>>))>>)>>

\* obj["name"] = f"{obj['name']}_{suffix}" for the objects at addrs, in order.
RECURSIVE RenameAll(_, _, _)
RenameAll(h, addrs, suffix) ==
    IF addrs = <<>> THEN h
    ELSE RenameAll([h EXCEPT ![Head(addrs)] =
                        Assign(@, "name", V(Suffixed(Get(@, "name").v, suffix)))],
                   Tail(addrs), suffix)

\* The attachments of the owners (instances or routers), in order.
RECURSIVE AttachmentsOf(_, _)
AttachmentsOf(h, owners) ==
    IF owners = <<>> THEN <<>>
    ELSE ListRefs(h, Get(h[Head(owners)], "networks").v) \o AttachmentsOf(h, Tail(owners))

\* modify_topology on objects: the deep copy of line 95, then the loops of
\* lines 98-111, which assign to objects of the copy only.
ModifyTopologyObjects(h, topology, suffix) ==
    LET copy == DeepCopy(h, topology)
        modified == copy.heap[copy.root]
        insts == ListRefs(copy.heap, Get(modified, "instances").v)
        nets == ListRefs(copy.heap, Get(modified, "networks").v)
        rtrs == ListRefs(copy.heap, Get(modified, "routers").v)
    IN [heap |-> RenameAll(copy.heap,
                           insts \o AttachmentsOf(copy.heap, insts) \o nets
                               \o rtrs \o AttachmentsOf(copy.heap, rtrs),
                           suffix),
        made |-> {copy.root}]

\* list.append(item)
ListAppend(h, list, item) ==
    [h EXCEPT ![list] = [@ EXCEPT !.items = Append(@, E("", item))]]

\* Lines 73-75: net.copy() is a new dict whose entries are those of net, the
\* addresses of nested lists included; the copy gets the new name and is
\* appended to all_networks.
CloneNet(st, net, suffix) ==
    LET modified_net == Alloc(st.heap, st.heap[net])
        named == [modified_net.heap EXCEPT ![modified_net.root] =
                    Assign(@, "name", V(Suffixed(Get(@, "name").v, suffix)))]
    IN [st EXCEPT !.heap = ListAppend(named, st.all_networks, R(modified_net.root)),
                  !.made = @ \cup {modified_net.root}]

\* Lines 81-84: a new list of new dicts {**net_ref, 'name': ...}.
RECURSIVE CloneRefs(_, _, _, _)
CloneRefs(h, refs, suffix, list) ==
    IF refs = <<>> THEN [heap |-> h, root |-> list]
    ELSE LET net_ref == h[Head(refs)]
             new == Alloc(h, Assign(net_ref, "name",
                                    V(Suffixed(Get(net_ref, "name").v, suffix))))
         IN CloneRefs(ListAppend(new.heap, list, R(new.root)), Tail(refs), suffix, list)

CloneRouter_KeepRoutes(st, router, suffix, prov) ==
    LET modified_router == Alloc(st.heap, st.heap[router])
        named == [modified_router.heap EXCEPT ![modified_router.root] =
                    Assign(@, "name", V(Suffixed(Get(@, "name").v, suffix)))]
        list == Alloc(named, List(<<>>))
        refs == CloneRefs(list.heap,
                          ListRefs(st.heap, Get(st.heap[router], "networks").v),
                          suffix, list.root)
        linked == [refs.heap EXCEPT ![modified_router.root] =
                     Assign(@, "networks", R(refs.root))]
    IN [st EXCEPT !.heap = ListAppend(linked, st.all_routers, R(modified_router.root)),
                  !.made = @ \cup {modified_router.root}]

\* Lines 79-88: router.copy(), the new name, the new interface list, for aws
\* a new empty routes list; the copy is appended to all_routers.
CloneRouter(st, router, suffix, prov) ==
    LET modified_router == Alloc(st.heap, st.heap[router])
        named == [modified_router.heap EXCEPT ![modified_router.root] =
                    Assign(@, "name", V(Suffixed(Get(@, "name").v, suffix)))]
        list == Alloc(named, List(<<>>))
        refs == CloneRefs(list.heap,
                          ListRefs(st.heap, Get(st.heap[router], "networks").v),
                          suffix, list.root)
        linked == [refs.heap EXCEPT ![modified_router.root] =
                     Assign(@, "networks", R(refs.root))]
        routes == Alloc(linked, List(<<>>))
        done == IF prov = "aws"
                THEN [routes.heap EXCEPT ![modified_router.root] =
                        Assign(@, "routes", R(routes.root))]
                ELSE linked
    IN [st EXCEPT !.heap = ListAppend(done, st.all_routers, R(modified_router.root)),
                  !.made = @ \cup {modified_router.root}]

RECURSIVE CloneNets(_, _, _)
CloneNets(st, nets, suffix) ==
    IF nets = <<>> THEN st
    ELSE CloneNets(CloneNet(st, Head(nets), suffix), Tail(nets), suffix)

RECURSIVE CloneRouterList(_, _, _, _)
CloneRouterList(st, rtrs, suffix, prov) ==
    IF rtrs = <<>> THEN st
    ELSE CloneRouterList(CloneRouter(st, Head(rtrs), suffix, prov), Tail(rtrs), suffix, prov)

\* One round of the loop of line 70; made is what the round created for its
\* suffix.
CollectRound(st, topology, suffix, prov) ==
    LET original_topology == st.heap[topology]
        nets == CloneNets([st EXCEPT !.made = {}],
                          ListRefs(st.heap, Get(original_topology, "networks").v), suffix)
    IN CloneRouterList(nets, ListRefs(st.heap, Get(original_topology, "routers").v),
                     suffix, prov)

\* Lines 67-68: all_networks = [] and all_routers = [].
CollectStart(h) ==
    LET all_networks == Alloc(h, List(<<>>))
        all_routers == Alloc(all_networks.heap, List(<<>>))
    IN [heap |-> all_routers.heap, all_networks |-> all_networks.root,
        all_routers |-> all_routers.root, made |-> {}]

\* The functions of topology_cloner.py that hand copies to a caller.
CloneFunctions == {"modify_topology", "collect_all_networks_and_routers"}

Providers == {"aws", "openstack"}

AliasInit ==
    /\ provider \in Providers
    /\ api \in CloneFunctions
    /\ heap = BaseHeap
    /\ suffixes \in {q \in SeqUpTo(Suffixes, MaxCopies) :
                       q # <<>> /\ \A k, m \in 1..Len(q) : k # m => q[k] # q[m]}
    /\ returned = <<>>
    /\ snapshot = BaseHeap
    /\ touched = <<>>
    /\ clones = <<>>
    /\ data = EmptyTopology
    /\ outcome = NotValidated
    /\ RunIdle
    /\ VpcIdle
    /\ FlowIdle
    /\ CallIdle

alias_unchanged ==
    UNCHANGED <<provider, api, suffixes, clones, data, outcome, run_vars, vpc_vars,
                flow_vars, call_vars>>

\* The caller calls modify_topology for the next suffix.
CallModify ==
    /\ api = "modify_topology"
    /\ touched = <<>>
    /\ Len(returned) < Len(suffixes)
    /\ LET call == ModifyTopologyObjects(heap, TopologyAddress, suffixes[Len(returned) + 1])
       IN /\ heap' = call.heap
          /\ snapshot' = call.heap
          /\ returned' = Append(returned, call.made)
    /\ UNCHANGED touched
    /\ alias_unchanged

\* The rounds of collect_all_networks_and_routers from round k on; out is
\* what each finished round made.
RECURSIVE CollectRounds(_, _, _)
CollectRounds(st, k, out) ==
    IF k > Len(suffixes) THEN [heap |-> st.heap, made |-> out]
    ELSE LET round == CollectRound(st, TopologyAddress, suffixes[k], provider)
         IN CollectRounds(round, k + 1, Append(out, round.made))

\* The caller calls collect_all_networks_and_routers with all suffixes.
CallCollect ==
    /\ api = "collect_all_networks_and_routers"
    /\ touched = <<>>
    /\ returned = <<>>
    /\ LET call == CollectRounds(CollectStart(heap), 1, <<>>)
       IN /\ heap' = call.heap
          /\ snapshot' = call.heap
          /\ returned' = call.made
    /\ UNCHANGED touched
    /\ alias_unchanged

\* Later the caller assigns to an object it reaches from what was returned
\* for one suffix: it appends to a list or sets a key of a dict.
Mutate ==
    /\ touched = <<>>
    /\ Len(returned) = Len(suffixes)
    /\ \E m \in 1..Len(returned) :
         \E t \in Reach(heap, returned[m]) :
            /\ heap' = IF heap[t].kind = "list"
                       THEN ListAppend(heap, t, V("x"))
                       ELSE [heap EXCEPT ![t] = Assign(@, "mark", V("x"))]
            /\ touched' = <<m, t>>
    /\ UNCHANGED <<returned, snapshot>>
    /\ alias_unchanged

AliasNext ==
    \/ CallModify
    \/ CallCollect
    \/ Mutate

SpecAlias == AliasInit /\ [][AliasNext]_vars

\* The objects of the base topology are as json.load built them.
BaseUnchanged ==
    \A a \in 1..Len(BaseHeap) : heap[a] = BaseHeap[a]

\* What was returned for the other suffixes is as it was returned.
OthersUnchanged ==
    touched # <<>> =>
        \A k \in 1..Len(returned) :
            k # touched[1] =>
                \A a \in Reach(snapshot, returned[k]) : heap[a] = snapshot[a]

\* C14: the base topology is never changed, neither by modify_topology or
\* collect_all_networks_and_routers nor by a later assignment to an object
\* reached from what they returned, and such an assignment does not show in
\* what was returned for another suffix.
C14_CopiesIndependent ==
    (heap # <<>>) => (BaseUnchanged /\ OthersUnchanged)

\* validate_topology_file returns (True, []) for the document.
Accepted(doc) ==
    LET result == validate_topology_file(doc)
    IN result.status = "returned" /\ result.is_valid

\* C15: when the validator accepts the base topology, it accepts every
\* clone modify_topology made of it.
C15_CloneStillValid ==
    Accepted(data) => \A k \in 1..Len(clones) : Accepted(clones[k])

C15_Witness ==
    /\ Accepted(data)
    /\ Len(data.instances) = 2
    /\ data.instances[1].networks[1].name # data.instances[2].networks[1].name
    /\ Len(data.routers) = 1
    /\ Len(data.routers[1].networks) = 2
    /\ data.routers[1].routes # <<>>
    /\ suffixes = <<"a_b", "b">>
    /\ Len(clones) = 2
    /\ Accepted(clones[1])
    /\ Accepted(clones[2])

(***************************************************************************)
(* Part 4: the address ranges of the shared VPC (calculate_vpc_cidr,       *)
(* create_shared_vpc_folder).  A text is the sequence of its characters.   *)
(***************************************************************************)
\* Networks handed to calculate_vpc_cidr.
MaxSubnets == 2

Digit == <<"0", "1", "2", "3", "4", "5", "6", "7", "8", "9">>

\* str(n) for a natural number.
RECURSIVE Dec(_)
Dec(n) == IF n < 10 THEN <<Digit[n + 1]>> ELSE Dec(n \div 10) \o <<Digit[(n % 10) + 1]>>

\* int(text) for a text of digits.
RECURSIVE ParseDec(_)
ParseDec(text) ==
    IF text = <<>> THEN 0
    ELSE ParseDec(SubSeq(text, 1, Len(text) - 1)) * 10
            + ((CHOOSE k \in 1..10 : Digit[k] = text[Len(text)]) - 1)

\* str(ip) of an IPv4Address.
Dotted(ip) ==
    Dec(ip[1]) \o <<".">> \o Dec(ip[2]) \o <<".">> \o Dec(ip[3]) \o <<".">> \o Dec(ip[4])

\* str(network) of an IPv4Network.
CidrText(cidr) == Dotted(cidr) \o <<"/">> \o Dec(cidr[5])

\* text.split(sep)
RECURSIVE Split(_, _)
Split(text, sep) ==
    IF text = <<>> THEN <<<<>>>>
    ELSE LET rest == Split(Tail(text), sep)
         IN IF Head(text) = sep THEN <<<<>>>> \o rest
            ELSE <<<<Head(text)>> \o rest[1]>> \o Tail(rest)

\* text.startswith(prefix)
StartsWith(text, prefix) ==
    Len(prefix) <= Len(text) /\ SubSeq(text, 1, Len(prefix)) = prefix

\* The octet at position k of an address masked to the prefix length.
MaskedOctet(octet, k, prefix) ==
    LET kept == IF prefix >= 8 * k THEN 8
                ELSE IF prefix <= 8 * (k - 1) THEN 0
                ELSE prefix - 8 * (k - 1)
    IN octet - (octet % Pow2(8 - kept))

\* ipaddress.ip_network(cidr, strict=False) for a valid literal: the host
\* bits are masked off.
ip_network(cidr) ==
    <<MaskedOctet(cidr[1], 1, cidr[5]), MaskedOctet(cidr[2], 2, cidr[5]),
      MaskedOctet(cidr[3], 3, cidr[5]), MaskedOctet(cidr[4], 4, cidr[5]), cidr[5]>>

\* The literal a text spells: the four octets and the prefix length.
ParseCidr(text) ==
    LET halves == Split(text, "/")
        octets == Split(halves[1], ".")
    IN <<ParseDec(octets[1]), ParseDec(octets[2]), ParseDec(octets[3]),
         ParseDec(octets[4]), ParseDec(halves[2])>>

\* Lines 27-33: the networks whose cidr ip_network accepts, parsed.
RECURSIVE ParsedSubnets(_)
ParsedSubnets(networks) ==
    IF networks = <<>> THEN <<>>
    ELSE (IF validate_cidr(Head(networks).cidr)
          THEN <<ip_network(Head(networks).cidr)>> ELSE <<>>)
         \o ParsedSubnets(Tail(networks))

DefaultVpcCidr == CidrText(<<10, 0, 0, 0, 16>>)

\* calculate_vpc_cidr: the first two fields of the first network address as
\* text, and startswith on the text of every network address.
calculate_vpc_cidr(networks) ==
    IF networks = <<>> THEN DefaultVpcCidr
    ELSE LET subnets == ParsedSubnets(networks)
         IN IF subnets = <<>> THEN DefaultVpcCidr
            ELSE LET first_ip == Dotted(subnets[1])
                     octets == Split(first_ip, ".")
                     common_prefix == octets[1] \o <<".">> \o octets[2]
                 IN IF \E k \in 1..Len(subnets) :
                           ~StartsWith(Dotted(subnets[k]), common_prefix)
                    THEN octets[1] \o <<".", "0", ".", "0", ".", "0", "/", "1", "6">>
                    ELSE common_prefix \o <<".", "0", ".", "0", "/", "1", "6">>

\* The networks part of collect_all_networks_and_routers, as values: for
\* every suffix in turn, every network under its new name.
RECURSIVE all_networks(_, _)
all_networks(networks, sfx) ==
    IF sfx = <<>> THEN <<>>
    ELSE [k \in 1..Len(networks) |->
            [networks[k] EXCEPT !.name = Suffixed(@, Head(sfx))]]
         \o all_networks(networks, Tail(sfx))

\* Line 674: the networks that have a gateway_ip.
RECURSIVE networks_with_gateway(_)
networks_with_gateway(networks) ==
    IF networks = <<>> THEN <<>>
    ELSE (IF "gateway_ip" \in DOMAIN Head(networks) THEN <<Head(networks)>> ELSE <<>>)
         \o networks_with_gateway(Tail(networks))

\* Lines 672-676: the VPC CIDR create_shared_vpc_folder uses, as text.
VpcCidrOf(prov, networks) ==
    IF prov = "aws" /\ networks # <<>> /\ networks_with_gateway(networks) # <<>>
    THEN calculate_vpc_cidr(networks_with_gateway(networks))
    ELSE CidrText(<<192, 168, 0, 0, 16>>)

\* Lines 683-691: for every network whose cidr parses, the /24 that holds
\* its network address.
used_networks(networks) ==
    {ip_network(<<ip_network(networks[k].cidr)[1], ip_network(networks[k].cidr)[2],
                  ip_network(networks[k].cidr)[3], ip_network(networks[k].cidr)[4], 24>>) :
        k \in {j \in 1..Len(networks) : validate_cidr(networks[j].cidr)}}

\* list(vpc_network.subnets(new_prefix=24)) for a /16, the only prefix
\* length a VPC CIDR of lines 672-676 has.
Subnets24(vpc_network) ==
    [k \in 1..256 |-> <<vpc_network[1], vpc_network[2], k - 1, 0, 24>>]

\* Lines 694-702: the last /24 of the VPC that is not in used_networks, and
\* the last /24 when all are.
public_subnet_cidr(vpc_network, used) ==
    LET subnets == Subnets24(vpc_network)
        free == {k \in 1..256 : subnets[k] \notin used}
    IN IF free = {} THEN subnets[256]
       ELSE subnets[CHOOSE k \in free : \A m \in free : m <= k]

\* CIDRs of declared networks: in 10.1/16 low and high, with host bits, a
\* /23 and a /16, in 10.10/16 and 10.2/16, and one that is no CIDR.
VpcCidrs ==
    {<<10, 1, 0, 0, 24>>, <<10, 1, 5, 77, 24>>, <<10, 1, 255, 0, 24>>,
     <<10, 1, 254, 0, 23>>, <<10, 1, 0, 0, 16>>, <<10, 10, 0, 0, 24>>,
     <<10, 2, 0, 0, 24>>, <<10, 1, 0, 0, 33>>}

\* Declared networks; one has no gateway.
VpcNetworks ==
    {Network("n", cidr, <<cidr[1], cidr[2], cidr[3], 1>>) : cidr \in VpcCidrs}
        \cup {[name |-> "n", cidr |-> <<10, 10, 0, 0, 24>>]}

VpcInit ==
    /\ \E networks \in SeqUpTo(VpcNetworks, MaxSubnets) :
         data = [networks |-> networks, instances |-> <<>>, routers |-> <<>>]
    /\ outcome = NotValidated
    /\ RunIdle
    /\ suffixes \in {<<"b">>, <<"b", "c">>}
    /\ clones = <<>>
    /\ provider = "aws"
    /\ api = "none"
    /\ heap = <<>>
    /\ returned = <<>>
    /\ snapshot = <<>>
    /\ touched = <<>>
    /\ VpcIdle
    /\ FlowIdle
    /\ CallIdle

vpc_unchanged ==
    UNCHANGED <<data, outcome, run_vars, clone_vars, alias_vars, flow_vars, call_vars>>

\* calculate_vpc_cidr is applied to the networks.
CalculateVpcCidr ==
    /\ vpc_cidr = <<>>
    /\ vpc_cidr' = <<calculate_vpc_cidr(data.networks)>>
    /\ UNCHANGED shared_vpc
    /\ vpc_unchanged

\* create_shared_vpc_folder, lines 665-702, for the networks of all copies.
CreateSharedVpcFolder ==
    /\ shared_vpc = <<>>
    /\ LET networks == all_networks(data.networks, suffixes)
           text == VpcCidrOf(provider, networks)
       IN shared_vpc' =
            <<[vpc_cidr |-> text,
               public_subnet_cidr |->
                   CidrText(public_subnet_cidr(ip_network(ParseCidr(text)),
                                               used_networks(networks)))]>>
    /\ UNCHANGED vpc_cidr
    /\ vpc_unchanged

VpcNext ==
    \/ CalculateVpcCidr
    \/ CreateSharedVpcFolder

SpecVpc == VpcInit /\ [][VpcNext]_vars

(***************************************************************************)
(* Properties of the address ranges.                                       *)
(***************************************************************************)
\* The first two octets of the network address of a CIDR.
TopOctets(cidr) ==
    LET address == MaskTo(IPv4Int(cidr), cidr[5])
    IN <<address \div Pow2(24), (address \div Pow2(16)) % 256>>

\* C16: calculate_vpc_cidr returns 10.0.0.0/16 for no networks; for
\* networks with valid CIDRs, with A.B the first two octets of the first
\* network address, it returns A.B.0.0/16 when every network address has
\* the first two octets A.B and A.0.0.0/16 when one has not.
C16_VpcCidrByOctets ==
    vpc_cidr # <<>> =>
        LET networks == data.networks
            top == TopOctets(networks[1].cidr)
        IN /\ networks = <<>> => vpc_cidr[1] = CidrText(<<10, 0, 0, 0, 16>>)
           /\ (/\ networks # <<>>
               /\ \A k \in 1..Len(networks) : validate_cidr(networks[k].cidr))
                => IF \A k \in 1..Len(networks) : TopOctets(networks[k].cidr) = top
                   THEN vpc_cidr[1] = CidrText(<<top[1], top[2], 0, 0, 16>>)
                   ELSE vpc_cidr[1] = CidrText(<<top[1], 0, 0, 0, 16>>)

\* Two CIDRs (prefix lengths of 8 or more) have an address in common.
Overlap(c1, c2) ==
    /\ c1[1] = c2[1]
    /\ \/ Contained(SubSeq(c1, 1, 4), c2)
       \/ Contained(SubSeq(c2, 1, 4), c1)

\* The CIDRs of the declared networks that are CIDRs.
DeclaredCidrs ==
    {data.networks[k].cidr :
        k \in {j \in 1..Len(data.networks) : validate_cidr(data.networks[j].cidr)}}

\* C17: the public subnet is the highest /24 of the VPC CIDR that overlaps
\* no declared network CIDR, of whatever prefix length, and the last /24 of
\* the VPC when every /24 overlaps one.
C17_PublicSubnetDisjoint ==
    shared_vpc # <<>> =>
        LET vpc == ParseCidr(shared_vpc[1].vpc_cidr)
            free == {third \in 0..255 :
                        \A cidr \in DeclaredCidrs :
                            ~Overlap(<<vpc[1], vpc[2], third, 0, 24>>, cidr)}
            highest == IF free = {} THEN 255
                       ELSE CHOOSE third \in free : \A other \in free : other <= third
        IN shared_vpc[1].public_subnet_cidr = CidrText(<<vpc[1], vpc[2], highest, 0, 24>>)

(***************************************************************************)
(* Part 5: the two entry points that validate, repair and deploy a         *)
(* topology: TerraformGenerator.run (generate/terraform_generator.py) and  *)
(* main of validate/topology_ai_cross_check.py.                            *)
(***************************************************************************)
FlowNetwork == Network("n", <<10, 0, 0, 0, 24>>, <<10, 0, 0, 1>>)

\* The contents topology.json and an AI's candidate can have: a topology
\* the validator accepts, one whose instance address is outside its
\* network, one whose instance is on an undeclared network, and one whose
\* attachment has no "ip" key.
FlowDocs ==
    {[networks |-> <<FlowNetwork>>, instances |-> <<Instance(<<att>>)>>, routers |-> <<>>] :
        att \in {Attachment("n", <<10, 0, 0, 5>>), Attachment("n", <<10, 0, 1, 5>>),
                 Attachment("m", <<10, 0, 0, 5>>), [name |-> "n"]}}

\* str(uuid.uuid4())[:6]: six hexadecimal digits; two stand for them all.
UuidPrefixes == {"0a1b2c", "3d4e5f"}

Programs == {"generator", "cross_check"}

FlowInit ==
    /\ data = EmptyTopology
    /\ outcome = NotValidated
    /\ RunIdle
    /\ CloneIdle
    /\ api = "none"
    /\ heap = <<>>
    /\ returned = <<>>
    /\ snapshot = <<>>
    /\ touched = <<>>
    /\ VpcIdle
    /\ provider \in Providers
    /\ program \in Programs
    /\ gpc = "start"
    /\ topology_json \in FlowDocs
    /\ fixed_topology = <<>>
    /\ checked = <<>>
    /\ writes = <<>>
    /\ last_valid = <<>>
    /\ dirs = {}
    /\ next_copy = 0
    /\ CallIdle

flow_unchanged ==
    UNCHANGED <<data, outcome, run_vars, alias_vars, vpc_vars, call_vars, program>>

\* save_topology and apply_fix: json.dump of the candidate over topology.json.
\* The history keeps what was known of the candidate when it was written.
save_topology(candidate) ==
    /\ topology_json' = candidate
    /\ writes' = Append(writes, [doc |-> candidate, checked |-> checked])

\* Control moves on and nothing is written.  "exited" is sys.exit(1) of
\* run; "crashed" is an exception that reaches __main__, which exits too.
Goto(at) ==
    /\ gpc' = at
    /\ UNCHANGED <<topology_json, fixed_topology, checked, writes, last_valid, dirs,
                   next_copy, clone_vars>>

\* load_and_validate_topology, lines 228-233: the first validation.
ValidateTopology ==
    /\ program = "generator"
    /\ gpc = "start"
    /\ LET result == validate_topology_file(topology_json)
       IN IF result.status = "raised" THEN Goto("crashed")
          ELSE /\ last_valid' = <<result.is_valid>>
               /\ gpc' = IF result.is_valid THEN "load" ELSE "autofix"
               /\ UNCHANGED <<topology_json, fixed_topology, checked, writes, dirs,
                              next_copy, clone_vars>>
    /\ flow_unchanged

\* _try_ai_autofix, lines 286-318: topology.json cannot be read, or no AI
\* is configured.
NoAutofix ==
    /\ program = "generator"
    /\ gpc = "autofix"
    /\ Goto("exited")
    /\ flow_unchanged

\* _dual_ai_fix, lines 320-343: OpenAI proposes a candidate or fails.
DualPropose ==
    /\ program = "generator"
    /\ gpc = "autofix"
    /\ \/ Goto("exited")
       \/ \E candidate \in FlowDocs :
            /\ fixed_topology' = <<candidate>>
            /\ checked' = <<>>
            /\ gpc' = "dual_validate"
            /\ UNCHANGED <<topology_json, writes, last_valid, dirs, next_copy, clone_vars>>
    /\ flow_unchanged

\* _dual_ai_fix, lines 357-364: the candidate is validated in a temporary
\* file.
DualValidate ==
    /\ program = "generator"
    /\ gpc = "dual_validate"
    /\ LET result == validate_topology_file(fixed_topology[1])
       IN IF result.status = "raised" THEN Goto("crashed")
          ELSE /\ checked' = <<result.is_valid>>
               /\ gpc' = "dual_review"
               /\ UNCHANGED <<topology_json, fixed_topology, writes, last_valid, dirs,
                              next_copy, clone_vars>>
    /\ flow_unchanged

\* _dual_ai_fix, lines 370-426: Gemini reviews; the candidate is saved when
\* post_valid and gemini_approved.
DualDecide ==
    /\ program = "generator"
    /\ gpc = "dual_review"
    /\ \E gemini_approved \in BOOLEAN :
        LET dual_approved == checked[1] /\ gemini_approved
        IN IF dual_approved
           THEN /\ save_topology(fixed_topology[1])
                /\ gpc' = "revalidate"
                /\ UNCHANGED <<fixed_topology, checked, last_valid, dirs, next_copy,
                               clone_vars>>
           ELSE Goto("exited")
    /\ flow_unchanged

\* _single_ai_fix, lines 428-460: the user declines, or Gemini proposes a
\* candidate or fails.
SinglePropose ==
    /\ program = "generator"
    /\ gpc = "autofix"
    /\ \/ Goto("exited")
       \/ \E candidate \in FlowDocs :
            /\ fixed_topology' = <<candidate>>
            /\ checked' = <<>>
            /\ gpc' = "single_confirm"
            /\ UNCHANGED <<topology_json, writes, last_valid, dirs, next_copy, clone_vars>>
    /\ flow_unchanged

\* _single_ai_fix, lines 462-489: the user confirms and apply_fix writes the
\* candidate, or the user declines or the write fails.
SingleApply ==
    /\ program = "generator"
    /\ gpc = "single_confirm"
    /\ \/ Goto("exited")
       \/ /\ save_topology(fixed_topology[1])
          /\ gpc' = "revalidate"
          /\ UNCHANGED <<fixed_topology, checked, last_valid, dirs, next_copy, clone_vars>>
    /\ flow_unchanged

Revalidate_Trusting ==
    /\ program = "generator"
    /\ gpc = "revalidate"
    /\ LET result == validate_topology_file(topology_json)
       IN IF result.status = "raised" THEN Goto("crashed")
          ELSE /\ last_valid' = <<result.is_valid>>
               /\ gpc' = "load"
               /\ UNCHANGED <<topology_json, fixed_topology, checked, writes, dirs,
                              next_copy, clone_vars>>
    /\ flow_unchanged

\* load_and_validate_topology, lines 246-266: topology.json is validated
\* again after a fix was written.
Revalidate ==
    /\ program = "generator"
    /\ gpc = "revalidate"
    /\ LET result == validate_topology_file(topology_json)
       IN IF result.status = "raised" THEN Goto("crashed")
          ELSE /\ last_valid' = <<result.is_valid>>
               /\ gpc' = IF result.is_valid THEN "load" ELSE "exited"
               /\ UNCHANGED <<topology_json, fixed_topology, checked, writes, dirs,
                              next_copy, clone_vars>>
    /\ flow_unchanged

\* load_and_validate_topology, lines 270-284: topology.json is loaded, or
\* reading it fails.
LoadTopology ==
    /\ program = "generator"
    /\ gpc = "load"
    /\ \/ Goto("resources")
       \/ Goto("exited")
    /\ flow_unchanged

\* run, line 149, and validate_resources: the cloud has the images and
\* flavors, or (OpenStack) it has not.
ValidateResources ==
    /\ program = "generator"
    /\ gpc = "resources"
    /\ \/ Goto("generate")
       \/ provider = "openstack" /\ Goto("exited")
    /\ flow_unchanged

\* generate_configs, lines 731-744: topology.json is read and one suffix
\* per copy is drawn; nothing compares the suffixes.
GenerateSuffixes ==
    /\ program = "generator"
    /\ gpc = "generate"
    /\ \E num_copies \in 1..MaxCopies :
        suffixes' \in [1..num_copies -> UuidPrefixes]
    /\ gpc' = "shared_vpc"
    /\ UNCHANGED <<topology_json, fixed_topology, checked, writes, last_valid, dirs,
                   next_copy, clones>>
    /\ flow_unchanged

\* generate_configs, lines 747-750, and create_shared_vpc_folder, lines
\* 650-651: AWS gets the folder 00-shared-vpc.
SharedVpcFolder ==
    /\ program = "generator"
    /\ gpc = "shared_vpc"
    /\ dirs' = IF provider = "aws" THEN dirs \cup {"00-shared-vpc"} ELSE dirs
    /\ next_copy' = 1
    /\ gpc' = "copies"
    /\ UNCHANGED <<topology_json, fixed_topology, checked, writes, last_valid, clone_vars>>
    /\ flow_unchanged

\* One round of the loop of generate_configs, lines 756-759, with
\* create_provider_directory: copytree raises when the directory exists,
\* and the handler of lines 809-817 removes the directory.
CreateProviderDirectory ==
    /\ program = "generator"
    /\ gpc = "copies"
    /\ next_copy <= Len(suffixes)
    /\ LET suffix == suffixes[next_copy]
           dir_name == Suffixed(provider, suffix)
       IN IF dir_name \in dirs
          THEN /\ dirs' = dirs \ {dir_name}
               /\ UNCHANGED clones
          ELSE /\ dirs' = dirs \cup {dir_name}
               /\ clones' = Append(clones, modify_topology(topology_json, suffix))
    /\ next_copy' = next_copy + 1
    /\ UNCHANGED <<gpc, topology_json, fixed_topology, checked, writes, last_valid,
                   suffixes>>
    /\ flow_unchanged

\* generate_configs, lines 765-769: run_terraform.py apply in the project
\* folder.
RunTerraform ==
    /\ program = "generator"
    /\ gpc = "copies"
    /\ next_copy > Len(suffixes)
    /\ Goto("deployed")
    /\ flow_unchanged

\* main of topology_ai_cross_check.py, lines 234-243: the first validation;
\* a valid topology needs no fix.
CrossCheckValidate ==
    /\ program = "cross_check"
    /\ gpc = "start"
    /\ LET result == validate_topology_file(topology_json)
       IN IF result.status = "raised" THEN Goto("crashed")
          ELSE /\ last_valid' = <<result.is_valid>>
               /\ gpc' = IF result.is_valid THEN "exited" ELSE "cli_fix"
               /\ UNCHANGED <<topology_json, fixed_topology, checked, writes, dirs,
                              next_copy, clone_vars>>
    /\ flow_unchanged

\* main, lines 255-263: OpenAI proposes a candidate or fails.
CrossCheckPropose ==
    /\ program = "cross_check"
    /\ gpc = "cli_fix"
    /\ \/ Goto("exited")
       \/ \E candidate \in FlowDocs :
            /\ fixed_topology' = <<candidate>>
            /\ checked' = <<>>
            /\ gpc' = "cli_validate"
            /\ UNCHANGED <<topology_json, writes, last_valid, dirs, next_copy, clone_vars>>
    /\ flow_unchanged

\* main, lines 308-327: the candidate is validated in .tmp_topology.json;
\* sys.exit(2) when it is not valid.
CrossCheckRevalidate ==
    /\ program = "cross_check"
    /\ gpc = "cli_validate"
    /\ LET result == validate_topology_file(fixed_topology[1])
       IN IF result.status = "raised" THEN Goto("crashed")
          ELSE /\ checked' = <<result.is_valid>>
               /\ gpc' = IF result.is_valid THEN "cli_apply" ELSE "exited"
               /\ UNCHANGED <<topology_json, fixed_topology, writes, last_valid, dirs,
                              next_copy, clone_vars>>
    /\ flow_unchanged

\* main, lines 342-369: --auto-apply with a review that did not fail, or the
\* user's yes, saves the candidate.
CrossCheckApply ==
    /\ program = "cross_check"
    /\ gpc = "cli_apply"
    /\ \/ Goto("exited")
       \/ /\ save_topology(fixed_topology[1])
          /\ gpc' = "exited"
          /\ UNCHANGED <<fixed_topology, checked, last_valid, dirs, next_copy, clone_vars>>
    /\ flow_unchanged

FlowNext ==
    \/ ValidateTopology
    \/ NoAutofix
    \/ DualPropose
    \/ DualValidate
    \/ DualDecide
    \/ SinglePropose
    \/ SingleApply
    \/ Revalidate
    \/ LoadTopology
    \/ ValidateResources
    \/ GenerateSuffixes
    \/ SharedVpcFolder
    \/ CreateProviderDirectory
    \/ RunTerraform
    \/ CrossCheckValidate
    \/ CrossCheckPropose
    \/ CrossCheckRevalidate
    \/ CrossCheckApply

SpecFlow == FlowInit /\ [][FlowNext]_vars

(***************************************************************************)
(* Properties of the entry points.                                         *)
(***************************************************************************)
HasDuplicate(seq) == \E i, j \in 1..Len(seq) : i # j /\ seq[i] = seq[j]

\* C18: when the suffixes generate_configs drew hold a duplicate, the run
\* stops before a topology is cloned and before the shared folder or a
\* folder of a copy is written, and nothing is deployed.
C18_DuplicateSuffixAborts ==
    (program = "generator" /\ HasDuplicate(suffixes))
        => /\ clones = <<>>
           /\ dirs = {}
           /\ gpc # "deployed"

\* C19: on every path that applies an AI fix, topology.json is overwritten
\* with a candidate only after validate_topology_file accepted that
\* candidate.
C19_WrittenAfterRevalidation ==
    \A k \in 1..Len(writes) : writes[k].checked = <<TRUE>>

\* generate_configs has been entered.
Generating == gpc \in {"generate", "shared_vpc", "copies", "deployed"}

\* C20: the generator enters generate_configs only when the last validation
\* of topology.json found it valid and the file is as it was validated;
\* a run that ended otherwise has cloned nothing, written no folder and
\* deployed nothing.
C20_GenerateOnlyAfterValid ==
    program = "generator" =>
        /\ Generating => (last_valid = <<TRUE>> /\ Accepted(topology_json))
        /\ (suffixes # <<>> \/ clones # <<>> \/ dirs # {}) => Generating
        /\ gpc \in {"exited", "crashed"} => (clones = <<>> /\ dirs = {})

\* A run whose topology.json was invalid, was repaired by an AI fix, was
\* validated again and was then cloned and deployed.
C20_Witness ==
    /\ program = "generator"
    /\ gpc = "deployed"
    /\ writes # <<>>
    /\ clones # <<>>
    /\ last_valid = <<TRUE>>

(***************************************************************************)
(* Further properties of the cloner.                                       *)
(***************************************************************************)
\* The routes of the router at address a, as values.
RoutesValue(h, a) ==
    LET list == h[Get(h[a], "routes").v]
    IN [i \in 1..Len(list.items) |-> h[list.items[i].v.v].items]

\* The routers of the base topology and the list all_routers that
\* collect_all_networks_and_routers returned.
BaseRouters == ListRefs(BaseHeap, Get(BaseHeap[TopologyAddress], "routers").v)

ReturnedRouters == ListRefs(heap, CollectStart(BaseHeap).all_routers)

Collected ==
    /\ api = "collect_all_networks_and_routers"
    /\ returned # <<>>
    /\ touched = <<>>

\* C21: collect_all_networks_and_routers returns a router for every base
\* router and suffix whatever the routes are; for aws every returned router
\* has no routes, for another provider it has the routes of its base
\* router, and the routes of the base routers are as they were.
C21_RoutesStrippedNotRejected ==
    Collected =>
        /\ Len(ReturnedRouters) = Len(suffixes) * Len(BaseRouters)
        /\ \A k \in 1..Len(ReturnedRouters) :
             RoutesValue(heap, ReturnedRouters[k]) =
                IF provider = "aws" THEN <<>>
                ELSE RoutesValue(BaseHeap, BaseRouters[((k - 1) % Len(BaseRouters)) + 1])
        /\ \A k \in 1..Len(BaseRouters) :
             /\ RoutesValue(heap, BaseRouters[k]) = RoutesValue(BaseHeap, BaseRouters[k])
             /\ RoutesValue(BaseHeap, BaseRouters[k]) # <<>>

C21_Witness ==
    /\ Collected
    /\ provider = "aws"
    /\ Len(ReturnedRouters) = 2

(***************************************************************************)
(* Part 6: check_ip_in_cidr called on its own (validators/validate_json.py).*)
(***************************************************************************)
\* Texts handed in as ip: addresses in and around 10.0.0.0/24 and
\* 10.0.0.0/23, an address with an octet above 255 and one with three
\* octets.
CallIps ==
    {<<a, b, c, d>> : a \in {10, 11}, b \in {0}, c \in {0, 1, 2}, d \in {0, 5, 77, 255}}
        \cup {<<10, 0, 0, 256>>, <<10, 0, 300, 5>>, <<10, 0, 5>>, <<>>}

\* Texts handed in as cidr: with and without host bits, with prefix lengths
\* from 8 to 32, without a prefix, with a prefix length above 32 and with
\* an octet above 255.
CallCidrs ==
    {<<10, 0, c, d, p>> : c \in {0, 1}, d \in {0, 5, 77}, p \in {8, 23, 24, 25, 30, 31, 32, 33}}
        \cup {<<10, 0, 0, 5>>, <<10, 0, 0, 0>>, <<10, 0, 256, 0, 24>>, <<10, 0, 0>>, <<>>}

CallInit ==
    /\ ip_arg \in CallIps
    /\ cidr_arg \in CallCidrs
    /\ in_cidr = <<>>
    /\ inventory = <<>>
    /\ LocalIdle
    /\ data = EmptyTopology
    /\ outcome = NotValidated
    /\ RunIdle
    /\ CloneIdle
    /\ AliasIdle
    /\ VpcIdle
    /\ FlowIdle

\* A caller calls check_ip_in_cidr(ip, cidr) and gets its value.
CheckIpInCidr ==
    /\ in_cidr = <<>>
    /\ in_cidr' = <<check_ip_in_cidr(ip_arg, cidr_arg)>>
    /\ UNCHANGED <<ip_arg, cidr_arg, inventory, local_vars, data, outcome, run_vars,
                   clone_vars, alias_vars, vpc_vars, flow_vars>>

CallNext == CheckIpInCidr

SpecCall == CallInit /\ [][CallNext]_vars

\* The text is a dotted quad of octets.
IsIPv4(ip) == Len(ip) = 4 /\ \A k \in 1..4 : ip[k] <= 255

\* The text is a dotted quad, alone or followed by a prefix length up to 32.
IsCidr(c) == Len(c) \in {4, 5} /\ IsIPv4(SubSeq(c, 1, 4)) /\ (Len(c) = 5 => c[5] <= 32)

\* The address lies between the first and the last address of the network.
InAddressRange(ip, c) ==
    LET size == Pow2(32 - (IF Len(c) = 4 THEN 32 ELSE c[5]))
        first == (IPv4Int(SubSeq(c, 1, 4)) \div size) * size
    IN first <= IPv4Int(ip) /\ IPv4Int(ip) <= first + (size - 1)

\* C22: check_ip_in_cidr returns a boolean for every pair of texts: true
\* when ip is an IPv4 address, cidr is a CIDR and the address lies in the
\* range of the network, false when the address lies outside it, and false
\* when one of the two is malformed.
C22_InCidrIsRangeMembership ==
    in_cidr # <<>> =>
        /\ in_cidr[1] \in BOOLEAN
        /\ in_cidr[1] = (/\ IsIPv4(ip_arg)
                         /\ IsCidr(cidr_arg)
                         /\ InAddressRange(ip_arg, cidr_arg))

\* An address in the range of a CIDR written with host bits.
C22_Witness ==
    /\ in_cidr = <<TRUE>>
    /\ cidr_arg = <<10, 0, 0, 77, 23>>
    /\ ip_arg = <<10, 0, 1, 255>>

(***************************************************************************)
(* Further properties of the orchestrator.                                 *)
(***************************************************************************)
\* What a dict holds under a key: <<>> when the key is absent.
Slot(d, k) == IF k \in DOMAIN d THEN <<d[k]>> ELSE <<>>

\* Keys under which a step changes one of the three result maps.
ChangedSlots ==
    {k \in DOMAIN error_messages \cup DOMAIN error_messages'
            \cup DOMAIN success_summaries \cup DOMAIN success_summaries'
            \cup DOMAIN live_logs \cup DOMAIN live_logs' :
        \/ Slot(error_messages, k) # Slot(error_messages', k)
        \/ Slot(success_summaries, k) # Slot(success_summaries', k)
        \/ Slot(live_logs, k) # Slot(live_logs', k)}

\* The folders whose worker takes the step: it reads a line or leaves a
\* state of run_command_safe.
Stepping ==
    {u \in Running : unit_state'[u] # unit_state[u] \/ lines'[u] # lines[u]}

OwnSlotOnly == ChangedSlots \subseteq Stepping /\ Cardinality(Stepping) <= 1

\* C23: every step that creates, overwrites or removes an entry of
\* error_messages, success_summaries or live_logs is a step of the worker
\* of the folder the entry is named after; no entry of another folder is
\* touched.
C23_WorkersWriteOwnSlot == [][OwnSlotOnly]_vars

\* One folder has a live log and its worker is running while another
\* folder's error is recorded and two folders hold an error or a summary.
C23_Witness ==
    \E u, v \in Units :
        /\ u # v
        /\ u \in DOMAIN live_logs /\ u \in Running
        /\ v \in DOMAIN error_messages
        /\ Cardinality(DOMAIN error_messages \cup DOMAIN success_summaries) >= 2

\* Folders whose run_command_safe returned 0.
Succeeded == {u \in folders : exit_code[u] = <<0>>}

\* C24: the summary run_parallel prints names the number of folders whose
\* exit code is 0 and the number of folders processed; it says "all" only
\* when every folder's exit code is 0.
C24_SummaryCountsSuccesses ==
    success # <<>> =>
        /\ \A u \in folders : exit_code[u] # <<>>
        /\ Summary.succeeded = Cardinality(Succeeded)
        /\ Summary.total = Cardinality(folders)
        /\ Summary.text = "all" => Succeeded = folders

\* A partial success on the rich path: one folder of three succeeded.
C24_Witness ==
    /\ RICH_AVAILABLE
    /\ success = <<1>>
    /\ Cardinality(folders) = 3
    /\ Summary.text = "count"

\* The address range of the network inner lies in that of outer.
Contains(outer, inner) ==
    /\ inner[5] >= outer[5]
    /\ MaskTo(IPv4Int(SubSeq(inner, 1, 4)), outer[5])
         = MaskTo(IPv4Int(SubSeq(outer, 1, 4)), outer[5])

\* C25: for a non-empty list of networks whose CIDRs are all valid, the
\* CIDR calculate_vpc_cidr returns contains the address range of every one
\* of them.
C25_VpcCidrContainsSubnets ==
    (/\ vpc_cidr # <<>>
     /\ data.networks # <<>>
     /\ \A k \in 1..Len(data.networks) : validate_cidr(data.networks[k].cidr))
        => \A k \in 1..Len(data.networks) :
              Contains(ParseCidr(vpc_cidr[1]), data.networks[k].cidr)

(***************************************************************************)
(* Part 7: the shared inventory next to the copies                         *)
(* (collect_all_networks_and_routers and modify_topology as values).       *)
(***************************************************************************)
\* all_routers that leaves the interfaces on the networks of the base.
all_routers_KeepRefs(routers, sfx, prov) ==
    [i \in 1..(Len(sfx) * Len(routers)) |->
        LET router == routers[((i - 1) % Len(routers)) + 1]
            suffix == sfx[((i - 1) \div Len(routers)) + 1]
        IN [router EXCEPT !.name = Suffixed(@, suffix),
                          !.routes = IF prov = "aws" THEN <<>> ELSE @]]

\* The routers part of collect_all_networks_and_routers, as values: for
\* every suffix in turn, every router under its new name, with its
\* interfaces on the renamed networks and, for aws, without routes.
RECURSIVE all_routers(_, _, _)
all_routers(routers, sfx, prov) ==
    IF sfx = <<>> THEN <<>>
    ELSE [k \in 1..Len(routers) |->
            [routers[k] EXCEPT !.name = Suffixed(@, Head(sfx)),
                               !.networks = RenamedRefs(@, Head(sfx)),
                               !.routes = IF prov = "aws" THEN <<>> ELSE @]]
         \o all_routers(routers, Tail(sfx), prov)

\* create_shared_vpc_folder, lines 665-669: the inventory is collected for
\* all suffixes before the first copy is made.
CollectInventory ==
    /\ inventory = <<>>
    /\ clones = <<>>
    /\ \E prov \in Providers :
         inventory' = <<[networks |-> all_networks(data.networks, suffixes),
                         routers |-> all_routers(data.routers, suffixes, prov)]>>
    /\ UNCHANGED <<ip_arg, cidr_arg, in_cidr, local_vars, data, outcome, run_vars,
                   clone_vars, alias_vars, vpc_vars, flow_vars>>

SharedNext == CollectInventory \/ CloneCopy

SpecShared == CloneInit /\ [][SharedNext]_vars

\* The names of the objects, in order.
NameList(objects) == [i \in 1..Len(objects) |-> objects[i].name]

\* The network names of the interfaces of the routers, in order.
InterfaceNames(routers) == [i \in 1..Len(routers) |-> NameList(routers[i].networks)]

\* The part of the list that belongs to the k-th suffix when every suffix
\* has n entries.
Group(list, k, n) == SubSeq(list, (k - 1) * n + 1, k * n)

\* C26: what collect_all_networks_and_routers returns is, suffix by suffix
\* in the order of the suffixes, the networks and routers of
\* modify_topology(base, suffix) by name and by the network names of the
\* router interfaces, and nothing else; so the networks of every copy are
\* in the inventory.
C26_InventoryMatchesClones ==
    inventory # <<>> =>
        /\ Len(inventory[1].networks) = Len(suffixes) * Len(data.networks)
        /\ Len(inventory[1].routers) = Len(suffixes) * Len(data.routers)
        /\ \A k \in 1..Len(suffixes) :
             LET copy == modify_topology(data, suffixes[k])
                 nets == Group(inventory[1].networks, k, Len(data.networks))
                 rtrs == Group(inventory[1].routers, k, Len(data.routers))
             IN /\ NameList(nets) = NameList(copy.networks)
                /\ NameList(rtrs) = NameList(copy.routers)
                /\ InterfaceNames(rtrs) = InterfaceNames(copy.routers)
        /\ \A k \in 1..Len(clones) :
             NamesOf(clones[k].networks) \subseteq NamesOf(inventory[1].networks)

\* Two copies of a topology whose router has interfaces on both networks,
\* made after the inventory was collected.
C26_Witness ==
    /\ inventory # <<>>
    /\ Len(clones) = 2
    /\ Len(data.routers) = 1
    /\ Len(data.routers[1].networks) = 2

\* C27: in the shared unit, before apply or destroy is started, terraform
\* init was started in it and exited 0.
C27_SharedInitBeforeAction ==
    \A i \in 1..Len(shared_steps) :
        shared_steps[i] \in {"apply", "destroy"} =>
            \E j \in 1..(i - 1) :
                /\ shared_steps[j] = "init"
                /\ j <= Len(shared_codes)
                /\ shared_codes[j] = 0

(***************************************************************************)
(* Part 8: the runner copied into a project folder                         *)
(* (terraform-projects/openstack_*/run_terraform.py).  Its run_command     *)
(* changes the working directory of the process and starts terraform with  *)
(* os.system; run_parallel calls it from the threads of a pool.            *)
(***************************************************************************)
\* The directory run_terraform.py is started in.
ProjectDir == "project"

LocalInit ==
    /\ local_folders \in SUBSET Units \ {{}}
    /\ local_state = [u \in Units |-> IF u \in local_folders THEN "queued" ELSE "absent"]
    /\ cwd = ProjectDir
    /\ ran_in = [u \in Units |-> <<>>]
    /\ ip_arg = <<>>
    /\ cidr_arg = <<>>
    /\ in_cidr = <<>>
    /\ inventory = <<>>
    /\ data = EmptyTopology
    /\ outcome = NotValidated
    /\ RunIdle
    /\ CloneIdle
    /\ AliasIdle
    /\ VpcIdle
    /\ FlowIdle

local_unchanged ==
    UNCHANGED <<local_folders, ip_arg, cidr_arg, in_cidr, inventory, data, outcome,
                run_vars, clone_vars, alias_vars, vpc_vars, flow_vars>>

\* Folders whose call of run_command is in a thread of the pool.
LocalRunning == {u \in Units : local_state[u] \in {"entered", "changed", "started"}}

\* run_parallel, lines 54-55: a thread of the pool takes the folder.
LocalStart(u) ==
    /\ local_state[u] = "queued"
    /\ Cardinality(LocalRunning) < MaxWorkers
    /\ local_state' = [local_state EXCEPT ![u] = "entered"]
    /\ UNCHANGED <<cwd, ran_in>>
    /\ local_unchanged

\* run_command, line 12: os.chdir changes the working directory of the
\* process, which all threads share.
LocalChdir(u) ==
    /\ local_state[u] = "entered"
    /\ cwd' = u
    /\ local_state' = [local_state EXCEPT ![u] = "changed"]
    /\ UNCHANGED ran_in
    /\ local_unchanged

\* run_command, lines 15-18: os.system starts the shell, which inherits the
\* working directory the process has at that moment.
LocalSystem(u) ==
    /\ local_state[u] = "changed"
    /\ ran_in' = [ran_in EXCEPT ![u] = <<cwd>>]
    /\ local_state' = [local_state EXCEPT ![u] = "started"]
    /\ UNCHANGED cwd
    /\ local_unchanged

\* run_command, lines 18-24: terraform exits and run_command returns.
LocalExit(u) ==
    /\ local_state[u] = "started"
    /\ local_state' = [local_state EXCEPT ![u] = "done"]
    /\ UNCHANGED <<cwd, ran_in>>
    /\ local_unchanged

LocalNext ==
    \E u \in Units :
        \/ LocalStart(u)
        \/ LocalChdir(u)
        \/ LocalSystem(u)
        \/ LocalExit(u)

SpecLocal == LocalInit /\ [][LocalNext]_vars

\* C28: every terraform command the project-local runner starts for a
\* folder is started in that folder.
C28_CommandRunsInOwnDirectory ==
    local_folders # {} =>
        \A u \in local_folders : ran_in[u] # <<>> => ran_in[u] = <<u>>


(***************************************************************************)
(* Further properties of generate_configs.                                 *)
(***************************************************************************)

\* The directories the rounds of the loop so far created successfully: the
\* first round that names a directory always finds it absent.
CreatedSoFar ==
    {Suffixed(provider, suffixes[i]) : i \in 1..(next_copy - 1)}

\* C29: a failure of create_provider_directory for one copy removes only
\* what that copy created: every directory a round of the loop created
\* successfully for an earlier copy still exists while the later rounds run
\* and when terraform is run.
C29_EarlierDirectoriesSurvive ==
    (program = "generator" /\ gpc \in {"copies", "deployed"})
        => CreatedSoFar \subseteq dirs


(***************************************************************************)
(* Further properties of the orchestrator.                                 *)
(***************************************************************************)

\* The pool phase of run_parallel is over.
PoolDone == pc \in {"after_pool", "shared_destroy", "returned"}

\* How many of the results are the code c, and how many folders exited
\* with it.
ResultsWith(c) == Cardinality({i \in 1..Len(results) : results[i] = c})

FoldersWith(c) == Cardinality({u \in folders : exit_code[u] = <<c>>})

\* One result per folder: as many results as folders, and every exit code
\* as often among the results as among the folders.
OneResultPerFolder ==
    /\ Len(results) = Cardinality(folders)
    /\ \A c \in ExitCodes : ResultsWith(c) = FoldersWith(c)

\* On the live-display path every future is collected once: the futures
\* left and the results collected add up to the folders all the time.
CollectedOnce ==
    (RICH_AVAILABLE /\ pc = "pool")
        => /\ completed = Len(results)
           /\ completed + Cardinality(futures) = Cardinality(folders)
           /\ \A u \in folders : u \in futures <=> results_data[u] = "pending"

\* C30: when every worker's terraform process terminates, the wait of
\* run_parallel for the pool ends, on the live-display path and on the
\* executor.map path alike, and then there is exactly one result per
\* folder; on the live-display path every future was collected once and
\* completed is the number of folders.
C30_PoolPhaseTerminates ==
    /\ [](CollectedOnce)
    /\ []((PoolDone /\ folders # {})
            => /\ OneResultPerFolder
               /\ (RICH_AVAILABLE => (completed = Cardinality(folders) /\ futures = {})))
    /\ (pc = "pool") ~> PoolDone

\* The live loop ended with three folders collected, one succeeded, two
\* failed with different codes.
C30_Witness ==
    /\ pc = "after_pool"
    /\ RICH_AVAILABLE
    /\ folders = Units
    /\ completed = 3
    /\ ResultsWith(0) = 1 /\ ResultsWith(1) = 1 /\ ResultsWith(2) = 1

====
